---- MODULE Spec2Model ----
(***************************************************************************)
(* Registry Normalization & Enrichment Proposal Engine of lawfirm_cli.     *)
(*                                                                         *)
(* A Python str is modelled as a sequence of one-character strings, so     *)
(* that strip / replace / upper / lower are computed character by          *)
(* character.  Enumeration-like strings on which no character operation    *)
(* is ever performed ("NIP", "MAIN", an entity id) are one-token           *)
(* sequences.  Python's None is the token NoneVal, which no string equals. *)
(* An Optional[NormalizedAddress] is a sequence of length 0 (None) or 1.   *)
(* A dict is a function whose DOMAIN is the set of keys present.           *)
(* The decoded JSON the normalizers read, and the profile they build from  *)
(* it, keep a run-time type tag on every value (see "Decoded JSON").       *)
(***************************************************************************)
EXTENDS Integers, Sequences, FiniteSets, TLC

VARIABLES
    stage,            \* "input" | "proposed" | "payload" | "normalized"
    source,           \* "KRS" | "CEIDG": which generator / normalizer runs
    entity,           \* the entity dict handed to the generator
    profile,          \* the canonical profile (mutable dataclass)
    all_identifiers,  \* the cross-entity index {type: {value: entity_id}}
    proposal,         \* the EnrichmentProposal returned, NoProposal before
    payload,          \* the raw decoded JSON handed to a normalizer
    norm_result,      \* the normalizer's outcome: a profile or a raise
    db,               \* the tables of the database
    runs              \* the enrichment runs in progress, by process

vars == <<stage, source, entity, profile, all_identifiers, proposal,
          payload, norm_result, db, runs>>

---------------------------------------------------------------------------
(* Python values                                                           *)

NoneVal == <<"None">>
T(tok) == <<tok>>
EmptyStr == <<>>

\* bool(v) for an Optional[str]
Truthy(v) == v # NoneVal /\ v # EmptyStr

\* a or b
PyOr(a, b) == IF Truthy(a) THEN a ELSE b

\* str(v)
PyStr(v) == IF v = NoneVal THEN <<"N", "o", "n", "e">> ELSE v

\* d.get(k) / d.get(k, default)
DictGet(d, k, default) == IF k \in DOMAIN d THEN d[k] ELSE default

Whitespace == {" ", "\t", "\n"}

RECURSIVE LStrip(_)
LStrip(s) ==
    IF s = <<>> THEN s
    ELSE IF Head(s) \in Whitespace THEN LStrip(Tail(s)) ELSE s

RECURSIVE RStrip(_)
RStrip(s) ==
    IF s = <<>> THEN s
    ELSE IF s[Len(s)] \in Whitespace THEN RStrip(SubSeq(s, 1, Len(s) - 1)) ELSE s

\* str.strip()
Strip(s) == RStrip(LStrip(s))

\* str.replace(c, "")
Remove(s, c) == SelectSeq(s, LAMBDA ch : ch # c)

UpperChar(ch) ==
    CASE ch = "a" -> "A"
      [] ch = "b" -> "B"
      [] ch = "j" -> "J"
      [] ch = "n" -> "N"
      [] OTHER -> ch

LowerChar(ch) ==
    CASE ch = "A" -> "a"
      [] ch = "B" -> "b"
      [] ch = "J" -> "j"
      [] ch = "N" -> "n"
      [] OTHER -> ch

\* str.upper() / str.lower()
Upper(s) == [i \in 1..Len(s) |-> UpperChar(s[i])]
Lower(s) == [i \in 1..Len(s) |-> LowerChar(s[i])]

---------------------------------------------------------------------------
(* registry/models.py                                                      *)

ADD == "add"
UPDATE == "update"
SKIP == "skip"

KRS == T("KRS")
NIP == T("NIP")
REGON == T("REGON")
EMAIL == T("EMAIL")
WEBSITE == T("WEBSITE")
PHONE == T("PHONE")
MAIN == T("MAIN")
CORRESPONDENCE == T("CORRESPONDENCE")
BUSINESS == T("BUSINESS")
LEGAL_PERSON == T("LEGAL_PERSON")
PHYSICAL_PERSON == T("PHYSICAL_PERSON")
PL == <<"P", "L">>

\* the keys of NormalizedAddress.to_dict(), in the order the dict holds them
AddressKeys ==
    <<"address_type", "country", "voivodeship", "county", "gmina", "city",
      "postal_code", "post_office", "street", "building_no", "unit_no",
      "additional_line">>

NormalizedAddress(address_type, country, city, street, building_no) ==
    [address_type |-> address_type, country |-> country,
     voivodeship |-> NoneVal, county |-> NoneVal, gmina |-> NoneVal,
     city |-> city, postal_code |-> NoneVal, post_office |-> NoneVal,
     street |-> street, building_no |-> building_no, unit_no |-> NoneVal,
     additional_line |-> NoneVal]

to_dict(address) == [k \in {AddressKeys[i] : i \in 1..Len(AddressKeys)} |-> address[k]]

\* AddressProposal.get_changes_summary, for an existing dict that is given:
\* the list of changes, one per key whose new value is non-empty and differs
RECURSIVE ChangesFrom(_, _, _)
ChangesFrom(addr_dict, existing, i) ==
    IF i > Len(AddressKeys) THEN <<>>
    ELSE LET key == AddressKeys[i]
             new_val == addr_dict[key]
             old_val == DictGet(existing, key, NoneVal)
             rest == ChangesFrom(addr_dict, existing, i + 1)
         IN  IF Truthy(new_val) /\ new_val # old_val
             THEN <<[key |-> key, old |-> PyOr(old_val, T("(empty)")),
                     new |-> new_val]>> \o rest
             ELSE rest

\* a variant that lists every non-empty new value, equal to the old or not
RECURSIVE ValuesFrom(_, _, _)
ValuesFrom(addr_dict, existing, i) ==
    IF i > Len(AddressKeys) THEN <<>>
    ELSE LET key == AddressKeys[i]
             new_val == addr_dict[key]
             old_val == DictGet(existing, key, NoneVal)
             rest == ValuesFrom(addr_dict, existing, i + 1)
         IN  IF Truthy(new_val)
             THEN <<[key |-> key, old |-> PyOr(old_val, T("(empty)")),
                     new |-> new_val]>> \o rest
             ELSE rest

get_changes_summary_all_values(addr_proposal, existing) ==
    ValuesFrom(to_dict(addr_proposal.address), existing, 1)

get_changes_summary(addr_proposal, existing) ==
    ChangesFrom(to_dict(addr_proposal.address), existing, 1)

EnrichmentProposal(entity_id, source_system, external_id) ==
    [entity_id |-> entity_id, source_system |-> source_system,
     external_id |-> external_id,
     core_updates |-> <<>>, type_specific_updates |-> <<>>,
     identifiers_to_add |-> <<>>, contacts_to_add |-> <<>>,
     address_proposals |-> <<>>,
     warnings |-> <<>>, info_messages |-> <<>>,
     snapshot_id |-> NoneVal]

\* a formatted message: the f-string's fixed text and what it interpolates
Message(text, subject, value, other) ==
    [text |-> text, subject |-> subject, value |-> value, other |-> other]

\* dict[key] = value
DictSet(d, key, value) == (key :> value) @@ d

---------------------------------------------------------------------------
(* registry/proposals.py                                                   *)

\* a variant that only strips the surrounding whitespace
normalize_identifier_strip_only(value) == Strip(value)

\* value.strip().replace("-", "").replace(" ", "")
normalize_identifier(value) == Remove(Remove(Strip(value), "-"), " ")

RECURSIVE IdentifierValuesFrom(_, _, _)
IdentifierValuesFrom(identifiers, identifier_type, i) ==
    IF i > Len(identifiers) THEN {}
    ELSE LET ident == identifiers[i]
             val == ident.identifier_value
             rest == IdentifierValuesFrom(identifiers, identifier_type, i + 1)
         IN  IF ident.identifier_type = identifier_type /\ Truthy(val)
             THEN {normalize_identifier(val)} \cup rest
             ELSE rest

_get_existing_identifier_values(ent, identifier_type) ==
    IdentifierValuesFrom(ent.identifiers, identifier_type, 1)

RECURSIVE ContactValuesFrom(_, _, _)
ContactValuesFrom(contacts, contact_type, i) ==
    IF i > Len(contacts) THEN {}
    ELSE LET contact == contacts[i]
             val == contact.contact_value
             rest == ContactValuesFrom(contacts, contact_type, i + 1)
         IN  IF contact.contact_type = contact_type /\ Truthy(val)
             THEN {Lower(Strip(val))} \cup rest
             ELSE rest

\* a variant that keeps the case of the existing values
RECURSIVE ContactValuesCaseFrom(_, _, _)
ContactValuesCaseFrom(contacts, contact_type, i) ==
    IF i > Len(contacts) THEN {}
    ELSE LET contact == contacts[i]
             val == contact.contact_value
             rest == ContactValuesCaseFrom(contacts, contact_type, i + 1)
         IN  IF contact.contact_type = contact_type /\ Truthy(val)
             THEN {Strip(val)} \cup rest
             ELSE rest

_get_existing_contact_values_case_sensitive(ent, contact_type) ==
    ContactValuesCaseFrom(ent.contacts, contact_type, 1)

_get_existing_contact_values(ent, contact_type) ==
    ContactValuesFrom(ent.contacts, contact_type, 1)

\* the first address of the type, as a sequence of length 0 (None) or 1
RECURSIVE AddressByTypeFrom(_, _, _)
AddressByTypeFrom(addresses, address_type, i) ==
    IF i > Len(addresses) THEN <<>>
    ELSE IF DictGet(addresses[i], "address_type", NoneVal) = address_type
         THEN <<addresses[i]>>
         ELSE AddressByTypeFrom(addresses, address_type, i + 1)

_get_existing_address_by_type(ent, address_type) ==
    AddressByTypeFrom(ent.addresses, address_type, 1)

\* a variant that looks the value up at the top level of the index
CollisionId_top_level(all_existing, identifier_type, normalized) ==
    IF DOMAIN all_existing # {} /\ identifier_type \in DOMAIN all_existing
    THEN DictGet(all_existing, normalized, NoneVal)
    ELSE NoneVal

\* all_existing[identifier_type].get(normalized), None without the index
CollisionId(all_existing, identifier_type, normalized) ==
    IF DOMAIN all_existing # {} /\ identifier_type \in DOMAIN all_existing
    THEN DictGet(all_existing[identifier_type], normalized, NoneVal)
    ELSE NoneVal

_propose_identifier(prop, ent, identifier_type, value, all_existing) ==
    IF ~Truthy(value) THEN prop
    ELSE
      LET normalized == normalize_identifier(value)
          existing == _get_existing_identifier_values(ent, identifier_type)
          collision_id == CollisionId(all_existing, identifier_type, normalized)
          ident_proposal ==
              [identifier_type |-> identifier_type,
               identifier_value |-> normalized,
               registry_name |-> NoneVal,
               action |-> IF ~Truthy(collision_id) THEN ADD ELSE SKIP,
               reason |-> IF ~Truthy(collision_id)
                          THEN Message("From registry", EmptyStr, NoneVal, NoneVal)
                          ELSE Message("Collision with entity", EmptyStr,
                                       NoneVal, collision_id),
               collision_entity_id |-> collision_id]
      IN  IF normalized \in existing
          THEN [prop EXCEPT !.info_messages =
                   Append(@, Message("already exists on entity",
                                     identifier_type, normalized, NoneVal))]
          ELSE [prop EXCEPT
                   !.warnings =
                       IF Truthy(collision_id)
                       THEN Append(@, Message("already exists on another entity",
                                              identifier_type, normalized,
                                              collision_id))
                       ELSE @,
                   !.identifiers_to_add = Append(@, ident_proposal)]

_propose_contact(prop, ent, contact_type, value, label) ==
    IF ~Truthy(value) THEN prop
    ELSE
      LET normalized == Strip(value)
          existing == _get_existing_contact_values(ent, contact_type)
      IN  IF Lower(normalized) \in existing
          THEN [prop EXCEPT !.info_messages =
                   Append(@, Message("already exists on entity",
                                     contact_type, normalized, NoneVal))]
          ELSE [prop EXCEPT !.contacts_to_add =
                   Append(@, [contact_type |-> contact_type,
                              contact_value |-> normalized,
                              label |-> PyOr(label, T("From registry")),
                              action |-> ADD,
                              reason |-> Message("From registry", EmptyStr,
                                                 NoneVal, NoneVal)])]

\* a variant that proposes UPDATE without looking at the change summary
_propose_address_always_update(prop, ent, address) ==
    IF address = <<>> THEN prop
    ELSE
      LET addr == address[1]
          found == _get_existing_address_by_type(ent, addr.address_type)
      IN  IF found = <<>>
          THEN [prop EXCEPT !.address_proposals =
                   Append(@, [address |-> addr, action |-> ADD,
                              existing_address_id |-> NoneVal,
                              reason |-> Message("No address exists",
                                                 addr.address_type, NoneVal,
                                                 NoneVal)])]
          ELSE [prop EXCEPT !.address_proposals =
                   Append(@, [address |-> addr, action |-> UPDATE,
                              existing_address_id |->
                                  PyStr(DictGet(found[1], "id", NoneVal)),
                              reason |-> Message("Update address from registry",
                                                 addr.address_type, NoneVal,
                                                 NoneVal)])]

\* address: a sequence of length 0 (None) or 1
_propose_address(prop, ent, address) ==
    IF address = <<>> THEN prop
    ELSE
      LET addr == address[1]
          found == _get_existing_address_by_type(ent, addr.address_type)
      IN  IF found = <<>>
          THEN [prop EXCEPT !.address_proposals =
                   Append(@, [address |-> addr, action |-> ADD,
                              existing_address_id |-> NoneVal,
                              reason |-> Message("No address exists",
                                                 addr.address_type, NoneVal,
                                                 NoneVal)])]
          ELSE
            LET existing == found[1]
                addr_proposal ==
                    [address |-> addr, action |-> UPDATE,
                     existing_address_id |->
                         PyStr(DictGet(existing, "id", NoneVal)),
                     reason |-> Message("Update address from registry",
                                        addr.address_type, NoneVal, NoneVal)]
                changes == get_changes_summary(addr_proposal, existing)
            IN  IF changes # <<>>
                THEN [prop EXCEPT !.address_proposals = Append(@, addr_proposal)]
                ELSE [prop EXCEPT !.info_messages =
                         Append(@, Message("address matches registry data",
                                           addr.address_type, NoneVal, NoneVal))]

\* a variant that never warns about a differing registered name
krs_type_specific_updates_silent(prop, ent, prof) ==
    IF ent.entity_type # LEGAL_PERSON THEN prop
    ELSE
      LET p1 == IF Truthy(prof.official_name) /\ ~Truthy(ent.registered_name)
                THEN [prop EXCEPT !.type_specific_updates =
                         DictSet(@, "registered_name", prof.official_name)]
                ELSE prop
          p2 == IF Truthy(prof.short_name) /\ ~Truthy(ent.short_name)
                THEN [p1 EXCEPT !.type_specific_updates =
                         DictSet(@, "short_name", prof.short_name)]
                ELSE p1
      IN  IF Truthy(prof.legal_form) /\ ~Truthy(ent.legal_form_suffix)
          THEN [p2 EXCEPT !.type_specific_updates =
                   DictSet(@, "legal_form_suffix", prof.legal_form)]
          ELSE p2

\* generate_krs_proposal, "Type-specific updates (for LEGAL_PERSON)"
krs_type_specific_updates(prop, ent, prof) ==
    IF ent.entity_type # LEGAL_PERSON THEN prop
    ELSE
      LET current_name == ent.registered_name
          p1 == IF Truthy(prof.official_name) /\ ~Truthy(current_name)
                THEN [prop EXCEPT !.type_specific_updates =
                         DictSet(@, "registered_name", prof.official_name)]
                ELSE IF Truthy(prof.official_name)
                        /\ current_name # prof.official_name
                THEN [prop EXCEPT !.warnings =
                         Append(@, Message("Registry name differs", EmptyStr,
                                           prof.official_name, current_name))]
                ELSE prop
          p2 == IF Truthy(prof.short_name) /\ ~Truthy(ent.short_name)
                THEN [p1 EXCEPT !.type_specific_updates =
                         DictSet(@, "short_name", prof.short_name)]
                ELSE p1
      IN  IF Truthy(prof.legal_form) /\ ~Truthy(ent.legal_form_suffix)
          THEN [p2 EXCEPT !.type_specific_updates =
                   DictSet(@, "legal_form_suffix", prof.legal_form)]
          ELSE p2

\* a variant that writes canonical_label without looking at the current one
krs_core_updates_overwrite(prop, ent, prof) ==
    IF Truthy(prof.official_name)
    THEN [prop EXCEPT !.core_updates =
             DictSet(@, "canonical_label", prof.official_name)]
    ELSE prop

\* a variant that takes the label from the short name
krs_core_updates_short_name(prop, ent, prof) ==
    IF Truthy(prof.short_name) /\ ~Truthy(ent.canonical_label)
    THEN [prop EXCEPT !.core_updates =
             DictSet(@, "canonical_label", prof.short_name)]
    ELSE prop

\* generate_krs_proposal, "Core updates (canonical_label)"
krs_core_updates(prop, ent, prof) ==
    LET current_label == ent.canonical_label
    IN  IF Truthy(prof.official_name) /\ ~Truthy(current_label)
        THEN [prop EXCEPT !.core_updates =
                 DictSet(@, "canonical_label", prof.official_name)]
        ELSE prop

\* the address the generator assigns address_type on, before proposing it
WithAddressType(address, address_type) ==
    IF address = <<>> THEN address
    ELSE <<[address[1] EXCEPT !.address_type = address_type]>>

\* the profile as generate_krs_proposal leaves it: it assigns address_type
\* on the profile's own NormalizedAddress objects
krs_profile_after(prof) ==
    [prof EXCEPT
        !.seat_address = WithAddressType(@, MAIN),
        !.correspondence_address = WithAddressType(@, CORRESPONDENCE)]

\* a variant that proposes the contacts before the identifiers
generate_krs_proposal_contacts_first(ent, prof, all_ids) ==
    LET p0 == EnrichmentProposal(PyStr(ent.id), T("KRS"),
                                 PyOr(prof.krs, EmptyStr))
        p1 == _propose_contact(p0, ent, EMAIL, prof.email, T("KRS"))
        p2 == _propose_contact(p1, ent, WEBSITE, prof.website, T("KRS"))
        p3 == _propose_contact(p2, ent, PHONE, prof.phone, T("KRS"))
        p4 == _propose_identifier(p3, ent, KRS, prof.krs, all_ids)
        p5 == _propose_identifier(p4, ent, NIP, prof.nip, all_ids)
        p6 == _propose_identifier(p5, ent, REGON, prof.regon, all_ids)
        p7 == krs_type_specific_updates(p6, ent, prof)
        p8 == krs_core_updates(p7, ent, prof)
        after == krs_profile_after(prof)
        p9 == _propose_address(p8, ent, after.seat_address)
    IN  _propose_address(p9, ent, after.correspondence_address)

generate_krs_proposal(ent, prof, all_ids) ==
    LET p0 == EnrichmentProposal(PyStr(ent.id), T("KRS"),
                                 PyOr(prof.krs, EmptyStr))
        \* Identifiers
        p1 == _propose_identifier(p0, ent, KRS, prof.krs, all_ids)
        p2 == _propose_identifier(p1, ent, NIP, prof.nip, all_ids)
        p3 == _propose_identifier(p2, ent, REGON, prof.regon, all_ids)
        \* Type-specific updates, core updates
        p4 == krs_type_specific_updates(p3, ent, prof)
        p5 == krs_core_updates(p4, ent, prof)
        \* Contacts
        p6 == _propose_contact(p5, ent, EMAIL, prof.email, T("KRS"))
        p7 == _propose_contact(p6, ent, WEBSITE, prof.website, T("KRS"))
        p8 == _propose_contact(p7, ent, PHONE, prof.phone, T("KRS"))
        \* Address
        after == krs_profile_after(prof)
        p9 == _propose_address(p8, ent, after.seat_address)
    IN  _propose_address(p9, ent, after.correspondence_address)

\* generate_ceidg_proposal, "Type-specific updates"
ceidg_type_specific_updates(prop, ent, prof) ==
    IF ent.entity_type = PHYSICAL_PERSON
    THEN
      LET p1 == IF Truthy(prof.first_name) /\ ~Truthy(ent.first_name)
                THEN [prop EXCEPT !.type_specific_updates =
                         DictSet(@, "first_name", prof.first_name)]
                ELSE prop
          p2 == IF Truthy(prof.last_name) /\ ~Truthy(ent.last_name)
                THEN [p1 EXCEPT !.type_specific_updates =
                         DictSet(@, "last_name", prof.last_name)]
                ELSE p1
          p3 == IF /\ Truthy(prof.first_name) /\ Truthy(ent.first_name)
                   /\ Upper(prof.first_name) # Upper(ent.first_name)
                THEN [p2 EXCEPT !.warnings =
                         Append(@, Message("First name differs", EmptyStr,
                                           prof.first_name, ent.first_name))]
                ELSE p2
      IN  IF /\ Truthy(prof.last_name) /\ Truthy(ent.last_name)
             /\ Upper(prof.last_name) # Upper(ent.last_name)
          THEN [p3 EXCEPT !.warnings =
                   Append(@, Message("Last name differs", EmptyStr,
                                     prof.last_name, ent.last_name))]
          ELSE p3
    ELSE IF ent.entity_type = LEGAL_PERSON
    THEN IF Truthy(prof.business_name) /\ ~Truthy(ent.registered_name)
         THEN [prop EXCEPT !.type_specific_updates =
                  DictSet(@, "registered_name", prof.business_name)]
         ELSE prop
    ELSE prop

\* generate_ceidg_proposal, "Core updates"
ceidg_core_updates(prop, ent, prof) ==
    LET current_label == ent.canonical_label
    IN  IF Truthy(current_label) THEN prop
        ELSE IF /\ ent.entity_type = PHYSICAL_PERSON
                /\ Truthy(prof.first_name) /\ Truthy(prof.last_name)
        THEN [prop EXCEPT !.core_updates =
                 DictSet(@, "canonical_label",
                         prof.first_name \o <<" ">> \o prof.last_name)]
        ELSE IF Truthy(prof.business_name)
        THEN [prop EXCEPT !.core_updates =
                 DictSet(@, "canonical_label", prof.business_name)]
        ELSE prop

\* for biz_addr in profile.business_addresses: _propose_address(...)
RECURSIVE ProposeBusinessAddresses(_, _, _, _)
ProposeBusinessAddresses(prop, ent, business_addresses, i) ==
    IF i > Len(business_addresses) THEN prop
    ELSE ProposeBusinessAddresses(
             _propose_address(prop, ent, <<business_addresses[i]>>),
             ent, business_addresses, i + 1)

\* the profile as generate_ceidg_proposal leaves it
ceidg_profile_after(prof) ==
    [prof EXCEPT !.main_address = WithAddressType(@, MAIN)]

generate_ceidg_proposal(ent, prof, all_ids) ==
    LET p0 == EnrichmentProposal(PyStr(ent.id), T("CEIDG"),
                                 PyOr(prof.nip, PyOr(prof.regon, EmptyStr)))
        \* Identifiers
        p1 == _propose_identifier(p0, ent, NIP, prof.nip, all_ids)
        p2 == _propose_identifier(p1, ent, REGON, prof.regon, all_ids)
        \* Type-specific updates, core updates
        p3 == ceidg_type_specific_updates(p2, ent, prof)
        p4 == ceidg_core_updates(p3, ent, prof)
        \* Contacts
        p5 == _propose_contact(p4, ent, EMAIL, prof.email, T("CEIDG"))
        p6 == _propose_contact(p5, ent, WEBSITE, prof.website, T("CEIDG"))
        p7 == _propose_contact(p6, ent, PHONE, prof.phone, T("CEIDG"))
        \* Addresses
        after == ceidg_profile_after(prof)
        p8 == _propose_address(p7, ent, after.main_address)
        p9 == _propose_address(p8, ent, after.correspondence_address)
    IN  ProposeBusinessAddresses(p9, ent, after.business_addresses, 1)

---------------------------------------------------------------------------
(* Inputs of the proposal generator                                        *)

MaxIdentifiers == 2        \* identifiers an entity holds
MaxContacts == 2           \* contacts an entity holds
MaxAddresses == 2          \* addresses an entity holds
MaxBusinessAddresses == 2  \* business addresses of a CEIDG profile

\* the sequences over the elements of choices, of length at most n
RECURSIVE SeqsUpTo(_, _)
SeqsUpTo(choices, n) ==
    IF n = 0 THEN {<<>>}
    ELSE LET shorter == SeqsUpTo(choices, n - 1)
         IN  shorter \cup {Append(q, c) : q \in shorter, c \in choices}

V12 == <<"1", "2">>
V12dash == <<"1", "-", "2">>
V12space == <<" ", "1", "2">>
V2 == <<"2">>
Jan == <<"J", "a", "n">>
JAN == <<"J", "A", "N">>
Bea == <<"B">>
MailA == <<"a">>
MailAPadded == <<"A", " ">>
MailAStored == <<" ", "A">>
MailB == <<"b">>
E1 == T("E1")
E2 == T("E2")
E3 == T("E3")
Warszawa == T("WARSZAWA")
Krakow == T("KRAKOW")
Marszalkowska == T("MARSZALKOWSKA")
No1 == <<"1">>

Entity(entity_type, canonical_label, registered_name, short_name, legal_form_suffix, first_name, last_name, identifiers, contacts, addresses) ==
    [id |-> E1, entity_type |-> entity_type,
     canonical_label |-> canonical_label,
     registered_name |-> registered_name, short_name |-> short_name,
     legal_form_suffix |-> legal_form_suffix,
     first_name |-> first_name, last_name |-> last_name,
     identifiers |-> identifiers, contacts |-> contacts,
     addresses |-> addresses]

EmptyEntity(entity_type) ==
    Entity(entity_type, EmptyStr, EmptyStr, EmptyStr, NoneVal, EmptyStr,
           EmptyStr, <<>>, <<>>, <<>>)

NormalizedKRSProfile(krs, nip, regon, official_name, short_name, legal_form, email, website, phone, seat_address, correspondence_address) ==
    [krs |-> krs, nip |-> nip, regon |-> regon,
     official_name |-> official_name, short_name |-> short_name,
     legal_form |-> legal_form,
     email |-> email, website |-> website, phone |-> phone,
     seat_address |-> seat_address,
     correspondence_address |-> correspondence_address]

EmptyKRSProfile ==
    NormalizedKRSProfile(NoneVal, NoneVal, NoneVal, NoneVal, NoneVal, NoneVal,
                         NoneVal, NoneVal, NoneVal, <<>>, <<>>)

NormalizedCEIDGProfile(ceidg_id, nip, regon, first_name, last_name, business_name, email, website, phone, main_address, correspondence_address, business_addresses) ==
    [ceidg_id |-> ceidg_id, nip |-> nip, regon |-> regon,
     first_name |-> first_name, last_name |-> last_name,
     business_name |-> business_name,
     email |-> email, website |-> website, phone |-> phone,
     main_address |-> main_address,
     correspondence_address |-> correspondence_address,
     business_addresses |-> business_addresses]

EmptyCEIDGProfile ==
    NormalizedCEIDGProfile(NoneVal, NoneVal, NoneVal, NoneVal, NoneVal,
                           NoneVal, NoneVal, NoneVal, NoneVal, <<>>, <<>>,
                           <<>>)

EntityTypes == {LEGAL_PERSON, PHYSICAL_PERSON}

\* identifiers, contacts and addresses an entity read from the store holds
IdentifierRows ==
    {[identifier_type |-> t, identifier_value |-> v] :
        t \in {NIP, KRS}, v \in {V12, V12dash, EmptyStr}}

ContactRows ==
    {[contact_type |-> t, contact_value |-> v] :
        t \in {EMAIL, PHONE}, v \in {MailA, MailAStored}}

AddrMainBare ==
    [id |-> T("A1"), address_type |-> MAIN, city |-> Warszawa,
     street |-> Marszalkowska]
AddrMainPL ==
    [id |-> T("A2"), address_type |-> MAIN, country |-> PL,
     city |-> Warszawa, street |-> Marszalkowska]
AddrMainFull ==
    [id |-> T("A3"), address_type |-> MAIN, country |-> PL,
     city |-> Warszawa, street |-> Marszalkowska, building_no |-> No1]
AddrBusiness ==
    [id |-> T("A4"), address_type |-> BUSINESS, country |-> PL,
     city |-> Warszawa]
AddrCorrespondence ==
    [id |-> T("A5"), address_type |-> CORRESPONDENCE, country |-> PL,
     city |-> Krakow]

AddressRows ==
    {AddrMainBare, AddrMainPL, AddrMainFull, AddrBusiness, AddrCorrespondence}

\* canonical addresses; country is "PL" unless the source names one
CanonMain == NormalizedAddress(MAIN, PL, Warszawa, Marszalkowska, NoneVal)
CanonMainNo1 == NormalizedAddress(MAIN, PL, Warszawa, Marszalkowska, No1)
CanonKrakow == NormalizedAddress(MAIN, PL, Krakow, NoneVal, NoneVal)
CanonCorrespondence ==
    NormalizedAddress(CORRESPONDENCE, PL, Krakow, NoneVal, NoneVal)
CanonBusiness == NormalizedAddress(BUSINESS, PL, Warszawa, NoneVal, NoneVal)
CanonBusinessKrakow == NormalizedAddress(BUSINESS, PL, Krakow, NoneVal, NoneVal)

\* cross-entity indexes: none, and indexes owning some values
IndexChoices ==
    << <<>>,
       (NIP :> (V12 :> E2)),
       (NIP :> (V12 :> E2)) @@ (REGON :> (V12 :> E2)),
       (KRS :> (V12 :> E3)) @@ (NIP :> (V2 :> E2)) >>

NoProposal == <<>>
NoPayload == <<>>
NoDb == <<>>
NoRuns == <<>>

Setup(src, ent, prof, idx) ==
    /\ stage = "input"
    /\ source = src
    /\ entity = ent
    /\ profile = prof
    /\ all_identifiers = idx
    /\ proposal = NoProposal
    /\ payload = NoPayload
    /\ norm_result = NoPayload
    /\ db = NoDb
    /\ runs = NoRuns

\* entities and profiles that differ in their identifiers
InitIdentifiers ==
    \E ids \in SeqsUpTo(IdentifierRows, MaxIdentifiers),
       i \in 1..Len(IndexChoices),
       nip \in {NoneVal, V12space, V2},
       regon \in {NoneVal, V12dash} :
        LET ent == [EmptyEntity(LEGAL_PERSON) EXCEPT !.identifiers = ids]
        IN  \/ \E krs \in {NoneVal, V12} :
                 Setup("KRS", ent,
                       [EmptyKRSProfile EXCEPT !.krs = krs, !.nip = nip,
                                               !.regon = regon],
                       IndexChoices[i])
            \/ Setup("CEIDG", ent,
                     [EmptyCEIDGProfile EXCEPT !.ceidg_id = V12, !.nip = nip,
                                               !.regon = regon],
                     IndexChoices[i])

\* entities and profiles that differ in their core and type-specific fields
InitFields ==
    \E entity_type \in EntityTypes,
       label \in {EmptyStr, Jan},
       registered \in {EmptyStr, Jan} :
        \/ \E short \in {NoneVal, Jan}, suffix \in {EmptyStr, Jan},
              official \in {NoneVal, Jan, Bea},
              pshort \in {NoneVal, Jan, Bea},
              form \in {NoneVal, Bea} :
                Setup("KRS",
                      [EmptyEntity(entity_type) EXCEPT
                          !.canonical_label = label,
                          !.registered_name = registered,
                          !.short_name = short,
                          !.legal_form_suffix = suffix],
                      [EmptyKRSProfile EXCEPT
                          !.official_name = official,
                          !.short_name = pshort,
                          !.legal_form = form],
                      <<>>)
        \/ \E first \in {EmptyStr, Jan}, last \in {NoneVal, Jan},
              pfirst \in {NoneVal, JAN, Bea},
              plast \in {NoneVal, JAN, Bea},
              business \in {NoneVal, EmptyStr, Bea} :
                Setup("CEIDG",
                      [EmptyEntity(entity_type) EXCEPT
                          !.canonical_label = label,
                          !.registered_name = registered,
                          !.first_name = first,
                          !.last_name = last],
                      [EmptyCEIDGProfile EXCEPT
                          !.first_name = pfirst,
                          !.last_name = plast,
                          !.business_name = business],
                      <<>>)

\* entities and profiles that differ in their contacts
InitContacts ==
    \E cs \in SeqsUpTo(ContactRows, MaxContacts),
       email \in {NoneVal, EmptyStr, MailAPadded, MailB},
       website \in {NoneVal, MailA},
       phone \in {NoneVal, MailA} :
        LET ent == [EmptyEntity(LEGAL_PERSON) EXCEPT !.contacts = cs]
        IN  \/ Setup("KRS", ent,
                     [EmptyKRSProfile EXCEPT !.email = email,
                         !.website = website, !.phone = phone],
                     <<>>)
            \/ Setup("CEIDG", ent,
                     [EmptyCEIDGProfile EXCEPT !.email = email,
                         !.website = website, !.phone = phone],
                     <<>>)

\* entities and profiles that differ in their addresses
InitAddresses ==
    \E addrs \in SeqsUpTo(AddressRows, MaxAddresses),
       corr \in {<<>>, <<CanonCorrespondence>>} :
        LET ent == [EmptyEntity(LEGAL_PERSON) EXCEPT !.addresses = addrs]
        IN  \/ \E seat \in {<<>>, <<CanonMain>>, <<CanonMainNo1>>,
                            <<CanonBusiness>>} :
                 Setup("KRS", ent,
                       [EmptyKRSProfile EXCEPT !.seat_address = seat,
                           !.correspondence_address = corr],
                       <<>>)
            \/ \E main \in {<<>>, <<CanonMain>>, <<CanonMainNo1>>},
                  biz \in SeqsUpTo({CanonBusiness, CanonBusinessKrakow},
                                   MaxBusinessAddresses) :
                 Setup("CEIDG", ent,
                       [EmptyCEIDGProfile EXCEPT !.main_address = main,
                           !.correspondence_address = corr,
                           !.business_addresses = biz],
                       <<>>)

\* entities and profiles that differ in every category at once
InitMixed ==
    \E ids \in {<<>>, <<[identifier_type |-> NIP, identifier_value |-> V12]>>},
       cs \in {<<>>, <<[contact_type |-> EMAIL, contact_value |-> MailA]>>},
       addrs \in {<<>>, <<AddrMainFull>>},
       name \in {EmptyStr, Jan},
       i \in {1, 4},
       nip \in {NoneVal, V12},
       regon \in {NoneVal, V2},
       pname \in {NoneVal, Bea},
       email \in {NoneVal, MailA},
       addr \in {<<>>, <<CanonMainNo1>>, <<CanonKrakow>>} :
        \/ Setup("KRS",
                 [EmptyEntity(LEGAL_PERSON) EXCEPT
                     !.identifiers = ids, !.contacts = cs,
                     !.addresses = addrs, !.registered_name = name,
                     !.canonical_label = name],
                 [EmptyKRSProfile EXCEPT
                     !.krs = V12, !.nip = nip, !.regon = regon,
                     !.official_name = pname, !.email = email,
                     !.seat_address = addr],
                 IndexChoices[i])
        \/ Setup("CEIDG",
                 [EmptyEntity(PHYSICAL_PERSON) EXCEPT
                     !.identifiers = ids, !.contacts = cs,
                     !.addresses = addrs, !.first_name = name,
                     !.last_name = name, !.canonical_label = name],
                 [EmptyCEIDGProfile EXCEPT
                     !.nip = nip, !.regon = regon,
                     !.first_name = pname, !.last_name = pname,
                     !.email = email, !.main_address = addr],
                 IndexChoices[i])

Init ==
    \/ InitIdentifiers
    \/ InitFields
    \/ InitContacts
    \/ InitAddresses
    \/ InitMixed

\* proposal = generate_krs_proposal(existing, profile)
GenerateKRS ==
    /\ stage = "input"
    /\ source = "KRS"
    /\ proposal' = generate_krs_proposal(entity, profile, all_identifiers)
    /\ profile' = krs_profile_after(profile)
    /\ stage' = "proposed"
    /\ UNCHANGED <<source, entity, all_identifiers, payload, norm_result,
                   db, runs>>

\* proposal = generate_ceidg_proposal(existing, profile)
GenerateCEIDG ==
    /\ stage = "input"
    /\ source = "CEIDG"
    /\ proposal' = generate_ceidg_proposal(entity, profile, all_identifiers)
    /\ profile' = ceidg_profile_after(profile)
    /\ stage' = "proposed"
    /\ UNCHANGED <<source, entity, all_identifiers, payload, norm_result,
                   db, runs>>

Next ==
    \/ GenerateKRS
    \/ GenerateCEIDG

Spec == Init /\ [][Next]_vars

---------------------------------------------------------------------------
(* Properties of the proposal generator                                    *)

Proposed == stage = "proposed"

\* the number of elements of a sequence that satisfy a test
Count(seq, Test(_)) == Len(SelectSeq(seq, Test))

WrittenFields ==
    DOMAIN proposal.core_updates \cup DOMAIN proposal.type_specific_updates

\* the candidate fields of each generator, and the value the profile
\* proposes for each
CandidateFields ==
    IF source = "KRS"
    THEN {"canonical_label", "registered_name", "short_name",
          "legal_form_suffix"}
    ELSE {"first_name", "last_name", "registered_name", "canonical_label"}

ProposedValue(F) ==
    IF source = "KRS"
    THEN CASE F = "canonical_label" -> profile.official_name
           [] F = "registered_name" -> profile.official_name
           [] F = "short_name" -> profile.short_name
           [] F = "legal_form_suffix" -> profile.legal_form
    ELSE CASE F = "first_name" -> profile.first_name
           [] F = "last_name" -> profile.last_name
           [] F = "registered_name" -> profile.business_name
           [] F = "canonical_label" ->
                IF /\ entity.entity_type = PHYSICAL_PERSON
                   /\ Truthy(profile.first_name) /\ Truthy(profile.last_name)
                THEN profile.first_name \o <<" ">> \o profile.last_name
                ELSE profile.business_name

\* the entity holds a non-empty F and the profile proposes another value
Conflict(F) ==
    /\ Truthy(entity[F])
    /\ Truthy(ProposedValue(F))
    /\ ProposedValue(F) # entity[F]

\* the field a warning is about
WarnedField(w) ==
    CASE w.text = "Registry name differs" -> "registered_name"
      [] w.text = "First name differs" -> "first_name"
      [] w.text = "Last name differs" -> "last_name"
      [] OTHER -> "none"

WarningsMentioning(F) ==
    Count(proposal.warnings, LAMBDA w : WarnedField(w) = F)

\* C1: the proposal holds no key F, in core_updates or in
\* type_specific_updates, whose current value on the entity is non-empty.
C1_NoWriteToNonEmptyField ==
    Proposed => \A F \in WrittenFields : ~Truthy(entity[F])

\* a proposal that writes one field while another, non-empty one, for which
\* the profile has a different value, is left alone
C1_Witness ==
    /\ Proposed
    /\ WrittenFields # {}
    /\ \E F \in CandidateFields : Conflict(F) /\ F \notin WrittenFields

\* C2 as stated: every candidate field in conflict is not written and has
\* exactly one warning mentioning it.
C2_Original ==
    Proposed =>
        \A F \in CandidateFields :
            Conflict(F) => F \notin WrittenFields /\ WarningsMentioning(F) = 1

\* the conflicts the generators warn about: the registered name of a legal
\* person (KRS), the first and last name of a physical person when they
\* differ ignoring case (CEIDG)
WarnsAbout(F) ==
    IF source = "KRS"
    THEN F = "registered_name" /\ entity.entity_type = LEGAL_PERSON
    ELSE /\ F \in {"first_name", "last_name"}
         /\ entity.entity_type = PHYSICAL_PERSON
         /\ Upper(ProposedValue(F)) # Upper(entity[F])

\* What the generators do about a conflict: the field is never written; it
\* has exactly one warning when it is the registered name of a legal person
\* (KRS) or a first or last name of a physical person that differs ignoring
\* case (CEIDG), and no warning otherwise.
C2_NoWriteAndWarningWhereWarned ==
    Proposed =>
        \A F \in CandidateFields :
            Conflict(F) =>
                /\ F \notin WrittenFields
                /\ WarningsMentioning(F) = IF WarnsAbout(F) THEN 1 ELSE 0

\* a conflict that is warned about together with one that is not
C2_Witness ==
    /\ Proposed
    /\ \E F \in CandidateFields :
           Conflict(F) /\ WarnsAbout(F) /\ WarningsMentioning(F) = 1
    /\ \E F \in CandidateFields :
           Conflict(F) /\ ~WarnsAbout(F) /\ WarningsMentioning(F) = 0

\* the identifier kinds each generator proposes, and the profile's value
IdentifierKinds == IF source = "KRS" THEN {KRS, NIP, REGON} ELSE {NIP, REGON}

ProfileIdentifier(K) ==
    CASE K = KRS -> profile.krs
      [] K = NIP -> profile.nip
      [] K = REGON -> profile.regon

\* a value with its spaces and dashes taken out
StripSpacesDashes(v) == SelectSeq(v, LAMBDA ch : ch \notin {" ", "-"})

\* the entity holds an identifier of kind K equal to v once both are
\* stripped of spaces and dashes
EntityHolds(K, v) ==
    \E i \in 1..Len(entity.identifiers) :
        /\ entity.identifiers[i].identifier_type = K
        /\ Truthy(entity.identifiers[i].identifier_value)
        /\ StripSpacesDashes(entity.identifiers[i].identifier_value)
               = StripSpacesDashes(v)

\* the entity the index names as owner of the value of kind K, or NoneVal
IndexOwner(K, v) ==
    IF K \in DOMAIN all_identifiers
       /\ StripSpacesDashes(v) \in DOMAIN all_identifiers[K]
    THEN all_identifiers[K][StripSpacesDashes(v)]
    ELSE NoneVal

ProposalsFor(K) ==
    SelectSeq(proposal.identifiers_to_add, LAMBDA p : p.identifier_type = K)

\* the profile carries a value of kind K that the entity does not hold and
\* that the index gives to another entity
Collides(K) ==
    /\ Truthy(ProfileIdentifier(K))
    /\ ~EntityHolds(K, ProfileIdentifier(K))
    /\ Truthy(IndexOwner(K, ProfileIdentifier(K)))
    /\ IndexOwner(K, ProfileIdentifier(K)) # entity.id

\* C3: when the index gives the profile's value of kind K to another entity
\* E2 and the target does not hold it, the proposal has exactly one
\* IdentifierProposal for K, tagged SKIP with collision_entity_id = E2,
\* exactly one warning for K, which references E2, and no ADD for K.
C3_CollisionIsSkippedWithWarning ==
    Proposed =>
        \A K \in IdentifierKinds :
            Collides(K) =>
                LET owner == IndexOwner(K, ProfileIdentifier(K))
                IN  /\ Len(ProposalsFor(K)) = 1
                    /\ ProposalsFor(K)[1].action = SKIP
                    /\ ProposalsFor(K)[1].collision_entity_id = owner
                    /\ Count(proposal.warnings,
                             LAMBDA w : w.subject = K) = 1
                    /\ Count(proposal.warnings,
                             LAMBDA w : w.subject = K /\ w.other = owner) = 1

\* a collision on the NIP with entity E2
C3_Witness ==
    /\ Proposed
    /\ Collides(NIP)
    /\ IndexOwner(NIP, profile.nip) = E2
    /\ Len(ProposalsFor(NIP)) = 1

\* C4: a profile value of kind K that the entity already holds (compared
\* with spaces and dashes stripped) yields no IdentifierProposal for K and
\* exactly one info message for K; a value it does not hold yields, when no
\* other entity owns it, exactly one proposal for K, an ADD.
C4_HeldIdentifierIsInfoElseAdd ==
    Proposed =>
        \A K \in IdentifierKinds :
            Truthy(ProfileIdentifier(K)) =>
                IF EntityHolds(K, ProfileIdentifier(K))
                THEN /\ Len(ProposalsFor(K)) = 0
                     /\ Count(proposal.info_messages,
                              LAMBDA m : m.subject = K) = 1
                ELSE ~Truthy(IndexOwner(K, ProfileIdentifier(K))) =>
                     /\ Len(ProposalsFor(K)) = 1
                     /\ ProposalsFor(K)[1].action = ADD
                     /\ Count(proposal.info_messages,
                              LAMBDA m : m.subject = K) = 0

\* the entity holds the NIP written with a dash, the profile carries it
\* written with a space, and the profile's REGON is new
C4_Witness ==
    /\ Proposed
    /\ Truthy(profile.nip) /\ EntityHolds(NIP, profile.nip)
    /\ \E i \in 1..Len(entity.identifiers) :
           /\ entity.identifiers[i].identifier_type = NIP
           /\ entity.identifiers[i].identifier_value # profile.nip
           /\ StripSpacesDashes(entity.identifiers[i].identifier_value)
                  = StripSpacesDashes(profile.nip)
    /\ Truthy(profile.regon) /\ ~EntityHolds(REGON, profile.regon)
    /\ Len(ProposalsFor(REGON)) = 1

\* the addresses of the profile, in the order the generator proposes them,
\* with the address_type the generator gave them
ProfileAddresses ==
    IF source = "KRS"
    THEN profile.seat_address \o profile.correspondence_address
    ELSE profile.main_address \o profile.correspondence_address
             \o profile.business_addresses

\* the entity's addresses of a type, in stored order
AddressesOfType(address_type) ==
    SelectSeq(entity.addresses, LAMBDA a : a.address_type = address_type)

\* the fields in which a canonical address has a non-empty value that
\* differs from the existing address
ChangedFields(address, existing) ==
    {k \in DOMAIN address :
        Truthy(address[k]) /\ address[k] # DictGet(existing, k, NoneVal)}

\* the one outcome expected for an address of the profile
ExpectedOutcome(address) ==
    LET same == AddressesOfType(address.address_type)
    IN  IF same = <<>>
        THEN [address |-> address, action |-> ADD,
              existing_address_id |-> NoneVal]
        ELSE IF ChangedFields(address, same[1]) # {}
        THEN [address |-> address, action |-> UPDATE,
              existing_address_id |-> same[1].id]
        ELSE [address |-> address, action |-> "info",
              existing_address_id |-> NoneVal]

ExpectedOutcomes ==
    [i \in 1..Len(ProfileAddresses) |-> ExpectedOutcome(ProfileAddresses[i])]

\* what the proposal holds about addresses: its address proposals, and the
\* address types of its "address matches registry data" messages
AddressProposalsMade ==
    [i \in 1..Len(proposal.address_proposals) |->
        [address |-> proposal.address_proposals[i].address,
         action |-> proposal.address_proposals[i].action,
         existing_address_id |->
             proposal.address_proposals[i].existing_address_id]]

AddressMatchMessages ==
    LET msgs == SelectSeq(proposal.info_messages,
                          LAMBDA m : m.text = "address matches registry data")
    IN  [i \in 1..Len(msgs) |-> msgs[i].subject]

\* C5: each address of the profile produces exactly one outcome: an ADD when
\* the entity has no address of its type; an UPDATE carrying the id of the
\* existing address of that type when the change summary is non-empty; no
\* proposal and one "address matches registry data" message when it is
\* empty.
C5_OneOutcomePerAddress ==
    Proposed =>
        /\ AddressProposalsMade
               = SelectSeq(ExpectedOutcomes, LAMBDA o : o.action # "info")
        /\ AddressMatchMessages
               = LET matching == SelectSeq(ExpectedOutcomes,
                                           LAMBDA o : o.action = "info")
                 IN  [i \in 1..Len(matching) |->
                         matching[i].address.address_type]

\* a profile whose addresses produce an ADD, an UPDATE and a match message
C5_Witness ==
    /\ Proposed
    /\ \E i \in 1..Len(ExpectedOutcomes) : ExpectedOutcomes[i].action = ADD
    /\ \E i \in 1..Len(ExpectedOutcomes) : ExpectedOutcomes[i].action = UPDATE
    /\ \E i \in 1..Len(ExpectedOutcomes) : ExpectedOutcomes[i].action = "info"
    /\ Len(proposal.address_proposals) = 2

\* the existing MAIN address has only city and street set (country too when
\* with_country), and the canonical MAIN address has the same city and
\* street, a building_no, and nothing else but its country
AddressDiffScenario(with_country) ==
    /\ AddressesOfType(MAIN) # <<>>
    /\ DOMAIN AddressesOfType(MAIN)[1]
           = {"id", "address_type", "city", "street"}
               \cup (IF with_country THEN {"country"} ELSE {})
    /\ \E i \in 1..Len(ProfileAddresses) :
           LET a == ProfileAddresses[i]
               ex == AddressesOfType(MAIN)[1]
           IN  /\ a.address_type = MAIN
               /\ a.city = ex.city /\ a.street = ex.street
               /\ Truthy(a.building_no)
               /\ with_country => a.country = ex.country
               /\ \A k \in DOMAIN a :
                      k \notin {"address_type", "country", "city", "street",
                                "building_no"} => ~Truthy(a[k])

MainProposals ==
    SelectSeq(proposal.address_proposals,
              LAMBDA p : p.address.address_type = MAIN)

\* the fields listed by AddressProposal.get_changes_summary
SummaryFields(addr_proposal, existing) ==
    LET changes == get_changes_summary(addr_proposal, existing)
    IN  {changes[i].key : i \in 1..Len(changes)}

\* C6 as stated: the proposal has exactly one UPDATE for MAIN, referencing
\* the existing address, whose change summary lists building_no only.
C6_Original ==
    (Proposed /\ AddressDiffScenario(FALSE)) =>
        /\ Len(MainProposals) = 1
        /\ MainProposals[1].action = UPDATE
        /\ MainProposals[1].existing_address_id = AddressesOfType(MAIN)[1].id
        /\ SummaryFields(MainProposals[1], AddressesOfType(MAIN)[1])
               = {"building_no"}

\* C6 (amended): the proposal has exactly one UPDATE for MAIN, referencing
\* the existing address; its change summary lists building_no and, because
\* the existing address has no country while the canonical one has ("PL" by
\* default), country, and no other field.  When the existing address also
\* holds the canonical country, the summary lists building_no only.
C6_SummaryIsBuildingNoAndUnsetCountry ==
    \A with_country \in BOOLEAN :
        (Proposed /\ AddressDiffScenario(with_country)) =>
            /\ Len(MainProposals) = 1
            /\ MainProposals[1].action = UPDATE
            /\ MainProposals[1].existing_address_id
                   = AddressesOfType(MAIN)[1].id
            /\ SummaryFields(MainProposals[1], AddressesOfType(MAIN)[1])
                   = IF with_country THEN {"building_no"}
                     ELSE {"building_no", "country"}

C6_Witness ==
    /\ Proposed
    /\ AddressDiffScenario(FALSE)
    /\ Len(MainProposals) = 1
    /\ MainProposals[1].address.country = PL

\* the contact channels and the profile's value for each
ContactChannels == {EMAIL, WEBSITE, PHONE}

ProfileContact(channel) ==
    CASE channel = EMAIL -> profile.email
      [] channel = WEBSITE -> profile.website
      [] channel = PHONE -> profile.phone

\* the entity holds a contact of the channel equal to the value, both
\* trimmed and compared ignoring case
EntityHasContact(channel, v) ==
    \E i \in 1..Len(entity.contacts) :
        /\ entity.contacts[i].contact_type = channel
        /\ Lower(Strip(entity.contacts[i].contact_value)) = Lower(Strip(v))

ContactProposalsFor(channel) ==
    SelectSeq(proposal.contacts_to_add, LAMBDA c : c.contact_type = channel)

\* C7: for each channel with a (non-empty) profile value, a ContactProposal
\* is produced exactly when the trimmed value equals, ignoring case, no
\* existing contact value of the channel; it carries the trimmed value, and
\* every ContactProposal is an ADD.
C7_ContactProposedIffNew ==
    Proposed =>
        /\ \A channel \in ContactChannels :
               Truthy(ProfileContact(channel)) =>
                   IF EntityHasContact(channel, ProfileContact(channel))
                   THEN ContactProposalsFor(channel) = <<>>
                   ELSE /\ Len(ContactProposalsFor(channel)) = 1
                        /\ ContactProposalsFor(channel)[1].contact_value
                               = Strip(ProfileContact(channel))
        /\ \A i \in 1..Len(proposal.contacts_to_add) :
               proposal.contacts_to_add[i].action = ADD

\* the entity has an EMAIL, the profile's email is another one and is
\* proposed as an ADD, while the profile's phone, which the entity holds in
\* another case, is not proposed
C7_Witness ==
    /\ Proposed
    /\ \E i \in 1..Len(entity.contacts) :
           entity.contacts[i].contact_type = EMAIL
    /\ Truthy(profile.email) /\ ~EntityHasContact(EMAIL, profile.email)
    /\ Len(ContactProposalsFor(EMAIL)) = 1
    /\ Truthy(profile.phone) /\ EntityHasContact(PHONE, profile.phone)
    /\ \E i \in 1..Len(entity.contacts) :
           /\ entity.contacts[i].contact_type = PHONE
           /\ Strip(entity.contacts[i].contact_value) # Strip(profile.phone)
    /\ ContactProposalsFor(PHONE) = <<>>

\* the category that emits a message: 1 identifiers, 2 type-specific
\* fields, 3 core fields, 4 contacts, 5 addresses
Category(m) ==
    CASE m.subject \in {KRS, NIP, REGON} -> 1
      [] m.text \in {"Registry name differs", "First name differs",
                     "Last name differs"} -> 2
      [] m.subject \in ContactChannels -> 4
      [] m.text = "address matches registry data" -> 5
      [] OTHER -> 0

InCategoryOrder(msgs) ==
    /\ \A i \in 1..Len(msgs) : Category(msgs[i]) # 0
    /\ \A i, j \in 1..Len(msgs) :
           i < j => Category(msgs[i]) <= Category(msgs[j])

\* C8: in every proposal the warnings and the info messages are each in the
\* order of the categories: identifiers, type-specific fields, core fields,
\* contacts, addresses.
C8_MessagesInCategoryOrder ==
    Proposed =>
        /\ InCategoryOrder(proposal.warnings)
        /\ InCategoryOrder(proposal.info_messages)

\* a proposal with an identifier warning before a name warning, and
\* identifier, contact and address info messages
C8_Witness ==
    /\ Proposed
    /\ {Category(proposal.warnings[i]) :
            i \in 1..Len(proposal.warnings)} = {1, 2}
    /\ {Category(proposal.info_messages[i]) :
            i \in 1..Len(proposal.info_messages)} = {1, 4, 5}

\* an empty legal person and a KRS profile with a KRS number, a NIP, an
\* official name and a seat address, none of whose identifiers another
\* entity owns
EmptyLegalPersonScenario ==
    /\ source = "KRS"
    /\ entity.entity_type = LEGAL_PERSON
    /\ entity.identifiers = <<>> /\ entity.addresses = <<>>
    /\ entity.contacts = <<>>
    /\ ~Truthy(entity.registered_name) /\ ~Truthy(entity.canonical_label)
    /\ Truthy(profile.krs) /\ Truthy(profile.nip)
    /\ Truthy(profile.official_name)
    /\ profile.seat_address # <<>>
    /\ profile.correspondence_address = <<>>
    /\ \A K \in IdentifierKinds :
           Truthy(ProfileIdentifier(K)) =>
               ~Truthy(IndexOwner(K, ProfileIdentifier(K)))

\* C9: for an empty legal person and such a KRS profile, the proposal has
\* exactly one ADD identifier per non-absent profile identifier and no other
\* identifier proposal, sets type_specific_updates.registered_name and
\* core_updates.canonical_label to the official name, and has exactly one
\* address proposal, an ADD for MAIN with the profile's city.
C9_EmptyLegalPersonScenario ==
    (Proposed /\ EmptyLegalPersonScenario) =>
        /\ \A K \in IdentifierKinds :
               /\ Len(ProposalsFor(K))
                      = IF Truthy(ProfileIdentifier(K)) THEN 1 ELSE 0
               /\ \A i \in 1..Len(ProposalsFor(K)) :
                      /\ ProposalsFor(K)[i].action = ADD
                      /\ ProposalsFor(K)[i].identifier_value
                             = StripSpacesDashes(ProfileIdentifier(K))
        /\ Len(proposal.identifiers_to_add)
               = Cardinality({K \in IdentifierKinds :
                                 Truthy(ProfileIdentifier(K))})
        /\ "registered_name" \in DOMAIN proposal.type_specific_updates
        /\ proposal.type_specific_updates["registered_name"]
               = profile.official_name
        /\ "canonical_label" \in DOMAIN proposal.core_updates
        /\ proposal.core_updates["canonical_label"] = profile.official_name
        /\ Len(proposal.address_proposals) = 1
        /\ proposal.address_proposals[1].action = ADD
        /\ proposal.address_proposals[1].address.address_type = MAIN
        /\ proposal.address_proposals[1].address.city
               = profile.seat_address[1].city

\* the scenario with a KRS number and a NIP only: two identifier ADDs
C9_Witness ==
    /\ Proposed
    /\ EmptyLegalPersonScenario
    /\ ~Truthy(profile.regon)
    /\ Len(proposal.identifiers_to_add) = 2
    /\ profile.seat_address[1].city = Krakow

---------------------------------------------------------------------------
(* Decoded JSON, as the normalizers see it                                 *)
(*                                                                         *)
(* The normalizers inspect the run-time type of what they read, so a value *)
(* carries a tag t.  A dict keeps its insertion order: it is a sequence of *)
(* key / value items with distinct keys.  A raised exception is a value    *)
(* tagged "raise"; every operation on a raised operand yields that raise,  *)
(* which is how an uncaught exception leaves the function.                 *)

JNull == [t |-> "null"]
JStr(s) == [t |-> "str", s |-> s]
JNum(n) == [t |-> "num", n |-> n]
JBool(b) == [t |-> "bool", b |-> b]
JList(l) == [t |-> "list", l |-> l]
JDict(d) == [t |-> "dict", d |-> d]
Item(k, v) == [k |-> k, v |-> v]
EmptyDict == JDict(<< >>)
EmptyList == JList(<< >>)

Raise(exc) == [t |-> "raise", exc |-> exc]
IsRaise(v) == v.t = "raise"

\* bool(v)
JTruthy(v) ==
    CASE v.t = "null" -> FALSE
      [] v.t = "str"  -> Len(v.s) > 0
      [] v.t = "num"  -> v.n # 0
      [] v.t = "bool" -> v.b
      [] v.t = "list" -> Len(v.l) > 0
      [] v.t = "dict" -> Len(v.d) > 0
      [] OTHER        -> TRUE

\* a or b
JOr(a, b) == IF IsRaise(a) THEN a ELSE IF JTruthy(a) THEN a ELSE b

\* key in d
HasKey(d, key) == \E i \in 1..Len(d.d) : d.d[i].k = key

\* d[key], for a key that is present
Lookup(d, key) == d.d[CHOOSE i \in 1..Len(d.d) : d.d[i].k = key].v

\* obj.get(key, default): only a dict has the method
JGet(obj, key, default) ==
    IF IsRaise(obj) THEN obj
    ELSE IF obj.t # "dict" THEN Raise("AttributeError")
    ELSE IF HasKey(obj, key) THEN Lookup(obj, key)
    ELSE default

\* the first raise among the values of a sequence, in evaluation order
RECURSIVE FirstRaise(_, _)
FirstRaise(values, i) ==
    IF i > Len(values) THEN JNull
    ELSE IF IsRaise(values[i]) THEN values[i]
    ELSE FirstRaise(values, i + 1)

Digits == <<"0", "1", "2", "3", "4", "5", "6", "7", "8", "9">>
IsDigit(ch) == \E i \in 1..10 : Digits[i] = ch
DigitVal(ch) == (CHOOSE i \in 1..10 : Digits[i] = ch) - 1

\* str(n) of a non-negative int
RECURSIVE StrOfNat(_)
StrOfNat(n) ==
    IF n < 10 THEN <<Digits[n + 1]>>
    ELSE StrOfNat(n \div 10) \o <<Digits[(n % 10) + 1]>>

Chars(word) ==
    CASE word = "True"  -> <<"T", "r", "u", "e">>
      [] word = "False" -> <<"F", "a", "l", "s", "e">>
      [] word = "None"  -> <<"N", "o", "n", "e">>

\* repr(v) and str(v): a str is quoted by repr and left as it is by str,
\* a list or a dict is rendered with the repr of what it holds
RECURSIVE Repr(_)
RECURSIVE ReprItems(_, _)
RECURSIVE ReprPairs(_, _)
Repr(v) ==
    CASE v.t = "null" -> Chars("None")
      [] v.t = "str"  -> <<"'">> \o v.s \o <<"'">>
      [] v.t = "num"  -> StrOfNat(v.n)
      [] v.t = "bool" -> IF v.b THEN Chars("True") ELSE Chars("False")
      [] v.t = "list" -> <<"[">> \o ReprItems(v.l, 1) \o <<"]">>
      [] v.t = "dict" -> <<"{">> \o ReprPairs(v.d, 1) \o <<"}">>
ReprItems(l, i) ==
    IF i > Len(l) THEN << >>
    ELSE Repr(l[i]) \o (IF i < Len(l) THEN <<",", " ">> ELSE << >>)
         \o ReprItems(l, i + 1)
ReprPairs(d, i) ==
    IF i > Len(d) THEN << >>
    ELSE <<"'", d[i].k, "'", ":", " ">> \o Repr(d[i].v)
         \o (IF i < Len(d) THEN <<",", " ">> ELSE << >>)
         \o ReprPairs(d, i + 1)

JStrOf(v) == IF v.t = "str" THEN v.s ELSE Repr(v)

---------------------------------------------------------------------------
(* registry/krs_client.py: shape coercion and the KRS normalizer           *)

\* value.strip() of a str value is non-empty
HasText(v) == v.t = "str" /\ Len(Strip(v.s)) > 0

_ensure_dict(data) ==
    IF IsRaise(data) THEN data
    ELSE IF data.t = "null" THEN EmptyDict
    ELSE IF data.t = "dict" THEN data
    ELSE IF data.t = "list" /\ Len(data.l) > 0 /\ data.l[1].t = "dict"
         THEN data.l[1]
    ELSE EmptyDict

TextKeys ==
    <<"value", "text", "nazwa", "name", "opis", "nazwaSkrocona",
      "formaPrawna", "status", "kodDzial", "kod", "imiona", "nazwisko">>

\* for key in [...]: if key in d and d[key]: return str(d[key])
RECURSIVE TextOfKeys(_, _)
TextOfKeys(d, i) ==
    IF i > Len(TextKeys) THEN JNull
    ELSE IF HasKey(d, TextKeys[i]) /\ JTruthy(Lookup(d, TextKeys[i]))
         THEN JStr(JStrOf(Lookup(d, TextKeys[i])))
    ELSE TextOfKeys(d, i + 1)

\* for v in d.values(): if isinstance(v, str) and v.strip(): return v
RECURSIVE FirstTextValue(_, _)
FirstTextValue(d, i) ==
    IF i > Len(d.d) THEN JNull
    ELSE IF HasText(d.d[i].v) THEN d.d[i].v
    ELSE FirstTextValue(d, i + 1)

\* the list branch of _ensure_str, on value[0]
EnsureStrOfFirst(first) ==
    IF first.t = "str" THEN (IF HasText(first) THEN first ELSE JNull)
    ELSE IF first.t = "dict" /\ TextOfKeys(first, 1) # JNull
         THEN TextOfKeys(first, 1)
    ELSE IF first.t = "dict" /\ FirstTextValue(first, 1) # JNull
         THEN FirstTextValue(first, 1)
    ELSE IF JTruthy(first) THEN JStr(JStrOf(first))
    ELSE JNull

_ensure_str(value) ==
    IF IsRaise(value) THEN value
    ELSE CASE value.t = "null" -> JNull
           [] value.t = "str"  -> IF HasText(value) THEN value ELSE JNull
           [] value.t \in {"num", "bool"} -> JStr(JStrOf(value))
           [] value.t = "list" ->
                IF Len(value.l) = 0 THEN JNull
                ELSE EnsureStrOfFirst(value.l[1])
           [] value.t = "dict" -> TextOfKeys(value, 1)

\* NormalizedAddress as a normalizer builds it, its fields still tagged
JAddress(address_type, country, city, street, building_no) ==
    [t |-> "address", address_type |-> address_type, country |-> country,
     city |-> city, street |-> street, building_no |-> building_no]

\* the keyword arguments of a constructor call are evaluated in order; the
\* call raises what the first raising argument raises
Construct(arguments, built) ==
    IF FirstRaise(arguments, 1) # JNull THEN FirstRaise(arguments, 1)
    ELSE built

KRSAddressOf(d) ==
    LET country     == JOr(_ensure_str(JGet(d, "kraj", JNull)), JStr(PL))
        city        == _ensure_str(JGet(d, "miejscowosc", JNull))
        street      == _ensure_str(JGet(d, "ulica", JNull))
        building_no == _ensure_str(JGet(d, "nrDomu", JNull))
    IN  Construct(<<country, city, street, building_no>>,
                  JAddress(JStr(MAIN), country, city, street, building_no))

_extract_address(addr_data) ==
    IF IsRaise(addr_data) THEN addr_data
    ELSE IF ~JTruthy(addr_data) THEN JNull
    ELSE IF addr_data.t = "list"
         THEN (IF Len(addr_data.l) > 0 /\ addr_data.l[1].t = "dict"
               THEN KRSAddressOf(addr_data.l[1])
               ELSE JNull)
    ELSE IF addr_data.t # "dict" THEN JNull
    ELSE KRSAddressOf(addr_data)

JDate(y, m, d) == [t |-> "date", y |-> y, m |-> m, d |-> d]

DaysIn(y, m) ==
    IF m \in {4, 6, 9, 11} THEN 30
    ELSE IF m # 2 THEN 31
    ELSE IF (y % 4 = 0 /\ y % 100 # 0) \/ y % 400 = 0 THEN 29
    ELSE 28

\* datetime.strptime(s, "%Y-%m-%d").date() for the zero-padded form
\* YYYY-MM-DD; any other text is a ValueError, which _parse_date catches
Strptime(s) ==
    IF /\ Len(s) = 10
       /\ s[5] = "-" /\ s[8] = "-"
       /\ \A i \in {1, 2, 3, 4, 6, 7, 9, 10} : IsDigit(s[i])
    THEN LET y == 1000 * DigitVal(s[1]) + 100 * DigitVal(s[2])
                  + 10 * DigitVal(s[3]) + DigitVal(s[4])
             m == 10 * DigitVal(s[6]) + DigitVal(s[7])
             d == 10 * DigitVal(s[9]) + DigitVal(s[10])
         IN  IF y >= 1 /\ m \in 1..12 /\ d >= 1 /\ d <= DaysIn(y, m)
             THEN JDate(y, m, d)
             ELSE JNull
    ELSE JNull

\* date_str[:10]
Prefix(s, n) == IF Len(s) <= n THEN s ELSE SubSeq(s, 1, n)

_parse_date(date_str) ==
    IF IsRaise(date_str) THEN date_str
    ELSE IF ~JTruthy(date_str) THEN JNull
    ELSE IF date_str.t = "str" THEN Strptime(Prefix(date_str.s, 10))
    ELSE Raise("TypeError")

\* variant: for item in identyfikatory_list, the oldest entry first
RECURSIVE ScanIdentifiers_forward(_, _, _, _)
ScanIdentifiers_forward(identyfikatory_list, i, nip, regon) ==
    IF i = 0 THEN <<nip, regon>>
    ELSE LET item_dict   ==
                 _ensure_dict(identyfikatory_list[Len(identyfikatory_list) - i + 1])
             inner_ident ==
                 _ensure_dict(JGet(item_dict, "identyfikatory", EmptyDict))
             nip_now   == IF ~JTruthy(nip)
                          THEN _ensure_str(JGet(inner_ident, "nip", JNull))
                          ELSE nip
             regon_now == IF ~JTruthy(regon)
                          THEN _ensure_str(JGet(inner_ident, "regon", JNull))
                          ELSE regon
         IN  IF JTruthy(nip_now) /\ JTruthy(regon_now)
             THEN <<nip_now, regon_now>>
             ELSE ScanIdentifiers_forward(identyfikatory_list, i - 1,
                                          nip_now, regon_now)

\* for item in reversed(identyfikatory_list): ... ; the pair <<nip, regon>>
RECURSIVE ScanIdentifiers(_, _, _, _)
ScanIdentifiers(identyfikatory_list, i, nip, regon) ==
    IF i = 0 THEN <<nip, regon>>
    ELSE LET item_dict   == _ensure_dict(identyfikatory_list[i])
             inner_ident ==
                 _ensure_dict(JGet(item_dict, "identyfikatory", EmptyDict))
             nip_now   == IF ~JTruthy(nip)
                          THEN _ensure_str(JGet(inner_ident, "nip", JNull))
                          ELSE nip
             regon_now == IF ~JTruthy(regon)
                          THEN _ensure_str(JGet(inner_ident, "regon", JNull))
                          ELSE regon
         IN  IF JTruthy(nip_now) /\ JTruthy(regon_now)
             THEN <<nip_now, regon_now>>
             ELSE ScanIdentifiers(identyfikatory_list, i - 1,
                                  nip_now, regon_now)

\* nip, regon of normalize_krs_response
KRSIdentifiers(dane_podmiotu) ==
    LET identyfikatory_list ==
            JGet(dane_podmiotu, "identyfikatory", EmptyList)
    IN  IF identyfikatory_list.t = "list"
        THEN ScanIdentifiers(identyfikatory_list.l,
                             Len(identyfikatory_list.l), JNull, JNull)
        ELSE IF identyfikatory_list.t = "dict"
        THEN LET inner_ident ==
                     _ensure_dict(JGet(identyfikatory_list, "identyfikatory",
                                       identyfikatory_list))
             IN  << _ensure_str(JGet(inner_ident, "nip", JNull)),
                    _ensure_str(JGet(inner_ident, "regon", JNull)) >>
        ELSE <<JNull, JNull>>

\* a dict is wrapped in a list, anything that is not a list becomes []
AsList(v) ==
    IF v.t = "dict" THEN <<v>>
    ELSE IF v.t = "list" THEN v.l
    ELSE << >>

\* for pkd in pkd_list: the codes appended to pkd_codes
RECURSIVE KRSPkdCodes(_, _)
KRSPkdCodes(pkd_list, i) ==
    IF i > Len(pkd_list) THEN << >>
    ELSE LET pkd  == _ensure_dict(pkd_list[i])
             code == JOr(JGet(pkd, "kodDzial", JNull), JGet(pkd, "kod", JNull))
         IN  (IF JTruthy(code) THEN <<code>> ELSE << >>)
             \o KRSPkdCodes(pkd_list, i + 1)

\* [_ensure_str(c) for c in pkd_codes if _ensure_str(c)]
RECURSIVE EnsureStrEach(_, _)
EnsureStrEach(codes, i) ==
    IF i > Len(codes) THEN << >>
    ELSE (IF JTruthy(_ensure_str(codes[i])) THEN <<_ensure_str(codes[i])>>
          ELSE << >>)
         \o EnsureStrEach(codes, i + 1)

\* for osoba in sklad_organu: the dicts appended to representatives
RECURSIVE Representatives(_, _)
Representatives(sklad_organu, i) ==
    IF i > Len(sklad_organu) THEN << >>
    ELSE LET osoba    == _ensure_dict(sklad_organu[i])
             ident    == _ensure_dict(JGet(osoba, "identyfikator", EmptyDict))
             imiona   == JOr(_ensure_str(JGet(osoba, "imiona", JNull)),
                             JStr(EmptyStr))
             nazwisko == JOr(_ensure_str(JGet(osoba, "nazwisko", JNull)),
                             JStr(EmptyStr))
             rep == [t |-> "representative",
                     name |-> JStr(Strip(imiona.s \o <<" ">> \o nazwisko.s)),
                     function |->
                         _ensure_str(JGet(osoba, "funkcjaWOrganie", JNull)),
                     pesel |-> IF JTruthy(ident)
                               THEN _ensure_str(JGet(ident, "pesel", JNull))
                               ELSE JNull]
         IN  (IF JTruthy(osoba) /\ JTruthy(rep.name) THEN <<rep>> ELSE << >>)
             \o Representatives(sklad_organu, i + 1)

normalize_krs_response(data) ==
    LET odpis    == _ensure_dict(JGet(data, "odpis", data))
        dane     == _ensure_dict(JGet(odpis, "dane", odpis))
        naglowek ==
            _ensure_dict(JOr(JOr(JGet(odpis, "naglowekP", JNull),
                                 JGet(odpis, "naglowekA", JNull)),
                             EmptyDict))
        krs_number    == _ensure_str(JGet(naglowek, "numerKRS", JNull))
        dzial1        == _ensure_dict(JGet(dane, "dzial1", EmptyDict))
        dane_podmiotu == _ensure_dict(JGet(dzial1, "danePodmiotu", EmptyDict))
        identifiers   == KRSIdentifiers(dane_podmiotu)
        siedziba      == _ensure_dict(JGet(dzial1, "siedzibaIAdres", EmptyDict))
        adres_siedziby == _ensure_dict(JGet(siedziba, "adres", EmptyDict))
        dzial3        == _ensure_dict(JGet(dane, "dzial3", EmptyDict))
        przedmiot_dzialalnosci ==
            _ensure_dict(JGet(dzial3, "przedmiotDzialalnosci", EmptyDict))
        pkd_codes ==
            KRSPkdCodes(AsList(JGet(przedmiot_dzialalnosci,
                                    "przedmiotPrzewazajacejDzialalnosci",
                                    EmptyList)), 1)
        pkd_main == IF Len(pkd_codes) > 0 THEN pkd_codes[1] ELSE JNull
        dzial2   == _ensure_dict(JGet(dane, "dzial2", EmptyDict))
        reprezentacja == _ensure_dict(JGet(dzial2, "reprezentacja", EmptyDict))
        representatives ==
            Representatives(AsList(JGet(reprezentacja, "skladOrganu",
                                        EmptyList)), 1)
        email == IF JTruthy(siedziba)
                 THEN _ensure_str(JOr(JGet(siedziba, "adresEmail", JNull),
                                      JGet(siedziba, "email", JNull)))
                 ELSE JNull
        website == IF JTruthy(siedziba)
                   THEN _ensure_str(
                            JOr(JGet(siedziba, "adresStronyInternetowej", JNull),
                                JGet(siedziba, "www", JNull)))
                   ELSE JNull
        phone == IF JTruthy(siedziba)
                 THEN _ensure_str(JGet(siedziba, "telefon", JNull))
                 ELSE JNull
        kapital == _ensure_dict(JGet(dzial1, "kapital", EmptyDict))
        share_capital ==
            _ensure_str(JGet(kapital, "wysokoscKapitaluZakladowego", JNull))
        official_name == _ensure_str(JGet(dane_podmiotu, "nazwa", JNull))
        short_name == _ensure_str(JGet(dane_podmiotu, "nazwaSkrocona", JNull))
        legal_form == _ensure_str(JGet(dane_podmiotu, "formaPrawna", JNull))
        legal_form_code ==
            _ensure_str(JGet(dane_podmiotu, "kodFormyPrawnej", JNull))
        registry_status == _ensure_str(JGet(dane_podmiotu, "status", JNull))
        registration_date ==
            _parse_date(_ensure_str(JGet(dane_podmiotu,
                                         "dataRejestracjiWKRS", JNull)))
        seat_address == _extract_address(adres_siedziby)
    IN  Construct(
            <<krs_number, identifiers[1], identifiers[2],
              FirstRaise(pkd_codes, 1)>>
            \o <<email, website, phone, share_capital, official_name,
                 short_name, legal_form, legal_form_code, registry_status,
                 registration_date, seat_address, _ensure_str(pkd_main)>>,
            [t |-> "NormalizedKRSProfile",
             krs |-> krs_number, nip |-> identifiers[1],
             regon |-> identifiers[2],
             official_name |-> official_name, short_name |-> short_name,
             legal_form |-> legal_form, legal_form_code |-> legal_form_code,
             registry_status |-> registry_status,
             registration_date |-> registration_date,
             seat_address |-> seat_address,
             correspondence_address |-> JNull,
             email |-> email, website |-> website, phone |-> phone,
             share_capital |-> share_capital,
             pkd_main |-> _ensure_str(pkd_main),
             pkd_codes |-> EnsureStrEach(pkd_codes, 1),
             representatives |-> representatives,
             raw_payload |-> data])

---------------------------------------------------------------------------
(* registry/ceidg_client.py: the CEIDG normalizer                          *)

\* the address fields are taken from the payload as they are
_extract_ceidg_address(addr_data) ==
    IF IsRaise(addr_data) THEN addr_data
    ELSE IF ~JTruthy(addr_data) THEN JNull
    ELSE LET country == JOr(JGet(addr_data, "kraj", JStr(PL)), JStr(PL))
             city    == JGet(addr_data, "miejscowosc", JNull)
             street  == JGet(addr_data, "ulica", JNull)
             building_no == JOr(JGet(addr_data, "budynek", JNull),
                                JGet(addr_data, "nrNieruchomosci", JNull))
         IN  Construct(<<country, city, street, building_no>>,
                       JAddress(JStr(MAIN), country, city, street,
                                building_no))

\* norm_addr.address_type = address_type, when an address was extracted
Retyped(norm_addr, address_type) ==
    IF norm_addr.t = "address"
    THEN [norm_addr EXCEPT !.address_type = JStr(address_type)]
    ELSE norm_addr

\* for addr in dodatkowe_adresy: what the loop appends, or what it raises
RECURSIVE CeidgBusinessAddresses(_, _)
CeidgBusinessAddresses(dodatkowe_adresy, i) ==
    IF i > Len(dodatkowe_adresy) THEN << >>
    ELSE LET addr      == dodatkowe_adresy[i]
             norm_addr == IF JTruthy(addr)
                          THEN _extract_ceidg_address(addr)
                          ELSE JNull
         IN  IF IsRaise(norm_addr) THEN <<norm_addr>>
             ELSE (IF JTruthy(norm_addr)
                   THEN <<Retyped(norm_addr, BUSINESS)>>
                   ELSE << >>)
                  \o CeidgBusinessAddresses(dodatkowe_adresy, i + 1)

\* iter(pkd_data): the elements of a list, the characters of a str; a dict
\* has been wrapped in a list before; nothing else is iterable
PkdIterable(pkd_data) ==
    CASE pkd_data.t = "dict" -> JList(<<pkd_data>>)
      [] pkd_data.t = "list" -> pkd_data
      [] pkd_data.t = "str"  ->
            JList([i \in 1..Len(pkd_data.s) |-> JStr(<<pkd_data.s[i]>>)])
      [] OTHER -> Raise("TypeError")

\* for pkd in pkd_data: the pair <<pkd_main, pkd_codes>> after the loop
RECURSIVE CeidgPkd(_, _, _, _)
CeidgPkd(pkd_data, i, pkd_main, pkd_codes) ==
    IF i > Len(pkd_data) THEN <<pkd_main, pkd_codes>>
    ELSE LET pkd == pkd_data[i]
         IN  IF pkd.t = "dict"
             THEN LET code == JGet(pkd, "kod", JNull)
                  IN  IF JTruthy(code)
                      THEN CeidgPkd(pkd_data, i + 1,
                               IF \/ JTruthy(JGet(pkd, "przewazajace", JNull))
                                  \/ ~JTruthy(pkd_main)
                               THEN code ELSE pkd_main,
                               Append(pkd_codes, code))
                      ELSE CeidgPkd(pkd_data, i + 1, pkd_main, pkd_codes)
             ELSE IF pkd.t = "str"
             THEN CeidgPkd(pkd_data, i + 1,
                           IF ~JTruthy(pkd_main) THEN pkd ELSE pkd_main,
                           Append(pkd_codes, pkd))
             ELSE CeidgPkd(pkd_data, i + 1, pkd_main, pkd_codes)

\* status_raw.upper() if status_raw else None
StatusOf(status_raw) ==
    IF ~JTruthy(status_raw) THEN JNull
    ELSE IF status_raw.t = "str" THEN JStr(Upper(status_raw.s))
    ELSE Raise("AttributeError")

\* ceidg_client._parse_date: the same statements as krs_client._parse_date,
\* here applied to what the payload holds
ceidg_parse_date(date_str) ==
    IF IsRaise(date_str) THEN date_str
    ELSE IF ~JTruthy(date_str) THEN JNull
    ELSE IF date_str.t = "str" THEN Strptime(Prefix(date_str.s, 10))
    ELSE Raise("TypeError")

normalize_ceidg_response(data) ==
    LET wlasciciel == JGet(data, "wlasciciel", EmptyDict)
        firma == JGet(data, "firma", JGet(data, "nazwa", JStr(EmptyStr)))
        adres_glowny ==
            JOr(JGet(data, "adresDzialalnosci", JNull),
                JGet(data, "adresGlownegoMiejscaWykonywaniaDzialalnosci",
                     EmptyDict))
        adres_koresp == JGet(data, "adresDoKorespondencji", EmptyDict)
        dodatkowe_adresy ==
            JGet(data, "dodatkoweMiejscaWykonywaniaDzialalnosci", EmptyList)
        business_addresses ==
            IF dodatkowe_adresy.t = "list"
            THEN CeidgBusinessAddresses(dodatkowe_adresy.l, 1)
            ELSE << >>
        pkd_data == PkdIterable(JGet(data, "pkd", EmptyList))
        pkd == IF IsRaise(pkd_data) THEN <<pkd_data, << >> >>
               ELSE CeidgPkd(pkd_data.l, 1, JNull, << >>)
        kontakt == JGet(data, "kontakt", EmptyDict)
        email == JOr(JGet(kontakt, "email", JNull), JGet(data, "email", JNull))
        website == JOr(JOr(JGet(kontakt, "stronaWww", JNull),
                           JGet(data, "www", JNull)),
                       JGet(data, "stronaInternetowa", JNull))
        phone == JOr(JGet(kontakt, "telefon", JNull),
                     JGet(data, "telefon", JNull))
        status == StatusOf(JGet(data, "status", JStr(EmptyStr)))
        corr_addr == IF JTruthy(adres_koresp)
                     THEN Retyped(_extract_ceidg_address(adres_koresp),
                                  CORRESPONDENCE)
                     ELSE JNull
        ceidg_id == JOr(JGet(data, "id", JNull),
                        JGet(data, "identyfikatorWpisu", JNull))
        nip == JOr(JGet(data, "nip", JNull), JGet(wlasciciel, "nip", JNull))
        regon == JGet(data, "regon", JNull)
        first_name == JOr(JGet(wlasciciel, "imie", JNull),
                          JGet(data, "imie", JNull))
        last_name == JOr(JGet(wlasciciel, "nazwisko", JNull),
                         JGet(data, "nazwisko", JNull))
        start_date ==
            ceidg_parse_date(JGet(data, "dataRozpoczeciaDzialalnosci", JNull))
        end_date ==
            ceidg_parse_date(JGet(data, "dataZakonczeniaDzialalnosci", JNull))
        suspension_date ==
            ceidg_parse_date(JGet(data, "dataZawieszeniaDzialalnosci", JNull))
        resume_date ==
            ceidg_parse_date(JGet(data, "dataWznowieniaDzialalnosci", JNull))
        main_address == _extract_ceidg_address(adres_glowny)
    IN  Construct(
            <<FirstRaise(business_addresses, 1), pkd[1], email, website,
              phone, status, corr_addr>>
            \o <<ceidg_id, nip, regon, first_name, last_name, start_date,
                 end_date, suspension_date, resume_date, main_address>>,
            [t |-> "NormalizedCEIDGProfile",
             ceidg_id |-> ceidg_id, nip |-> nip, regon |-> regon,
             first_name |-> first_name, last_name |-> last_name,
             business_name |-> firma, status |-> status,
             start_date |-> start_date, end_date |-> end_date,
             suspension_date |-> suspension_date,
             resume_date |-> resume_date,
             main_address |-> main_address,
             correspondence_address |-> corr_addr,
             business_addresses |-> business_addresses,
             email |-> email, website |-> website, phone |-> phone,
             pkd_main |-> pkd[1], pkd_codes |-> pkd[2],
             raw_payload |-> data])

---------------------------------------------------------------------------
(* Payloads handed to the normalizers                                      *)

\* the longest list of historical identifier entries in a payload
MaxHistory == 2

\* a key the payload does not have
Absent == [t |-> "absent"]
Opt(k, v) == IF v = Absent THEN << >> ELSE <<Item(k, v)>>

Date1 == <<"2", "0", "2", "0", "-", "0", "2", "-", "2", "9">>
Date1Time == Date1 \o <<"T", "1", "0">>
DateBad == <<"2", "0", "2", "1", "-", "0", "2", "-", "2", "9">>
StatusText == <<"a", "b">>
Blank == <<" ">>

JAddrDict == JDict(<<Item("miejscowosc", JStr(Warszawa)),
                     Item("ulica", JStr(Marszalkowska))>>)
JOwnerDict == JDict(<<Item("imie", JStr(Jan)), Item("nazwisko", JStr(Bea)),
                      Item("nip", JStr(V12))>>)
JContactDict == JDict(<<Item("email", JStr(MailA))>>)

\* CEIDG entries that differ in the owner and contact blocks
CeidgBlockPayloads ==
    { JDict(Opt("wlasciciel", w) \o Opt("kontakt", k) \o Opt("nip", n)
            \o Opt("imie", i)) :
        w \in {Absent, JNull, JOwnerDict, JStr(Jan), JList(<<JOwnerDict>>)},
        k \in {Absent, JNull, JContactDict, JNum(1)},
        n \in {Absent, JStr(V2)},
        i \in {Absent, JStr(JAN)} }

\* CEIDG entries that differ in the status, the dates and the firm name
CeidgScalarPayloads ==
    { JDict(Opt("status", s) \o Opt("dataRozpoczeciaDzialalnosci", d)
            \o Opt("firma", f)) :
        s \in {Absent, JNull, JStr(EmptyStr), JStr(StatusText), JNum(1),
               JNum(0), JBool(TRUE), JList(<<JStr(StatusText)>>)},
        d \in {Absent, JNull, JStr(Date1), JStr(Date1Time), JStr(DateBad),
               JStr(Jan), JNum(7), JList(<<JStr(Date1)>>)},
        f \in {Absent, JNull, JStr(Jan)} }

\* CEIDG entries that differ in the addresses and the PKD codes
CeidgListPayloads ==
    { JDict(Opt("adresDzialalnosci", a) \o Opt("adresDoKorespondencji", c)
            \o Opt("dodatkoweMiejscaWykonywaniaDzialalnosci", b)
            \o Opt("pkd", p)) :
        a \in {Absent, JNull, JAddrDict, JStr(Warszawa)},
        c \in {Absent, JAddrDict, JList(<<JAddrDict>>)},
        b \in {Absent, JList(<<JAddrDict>>), JList(<<JNull, JAddrDict>>),
               JList(<<JStr(Krakow)>>), JAddrDict},
        p \in {Absent, JNull, JNum(7), JStr(V12),
               JDict(<<Item("kod", JStr(V12))>>),
               JList(<<JDict(<<Item("kod", JStr(V2))>>), JStr(V12),
                       JDict(<<Item("kod", JStr(No1)),
                               Item("przewazajace", JBool(TRUE))>>)>>)} }

\* the longest list of activity codes in a payload
MaxPkd == 2

\* one entry of a CEIDG activity-code list: a code, flagged as principal or
\* not, or the bare code
CeidgPkdEntries ==
    { JDict(<<Item("kod", JStr(c))>> \o Opt("przewazajace", f)) :
        c \in {V12, V2}, f \in {Absent, JBool(TRUE), JBool(FALSE)} }
    \cup {JStr(V12)}

\* CEIDG entries that differ in the list of activity codes
CeidgPkdPayloads ==
    { JDict(<<Item("pkd", JList(l))>>) : l \in SeqsUpTo(CeidgPkdEntries, MaxPkd) }

CeidgPayloads ==
    CeidgBlockPayloads \cup CeidgScalarPayloads \cup CeidgListPayloads
    \cup CeidgPkdPayloads

\* the shapes a text field of a KRS payload comes in
TextShapes ==
    {Absent, JNull, JStr(EmptyStr), JStr(Blank), JStr(Jan), JNum(7),
     JBool(FALSE), EmptyList, JList(<<JStr(Jan), JStr(Bea)>>),
     JList(<<JDict(<<Item("nazwa", JStr(Jan))>>)>>),
     JList(<<JDict(<<Item("nrWpisuWprow", JStr(No1))>>)>>),
     JList(<<JDict(<<Item("nrWpisuWprow", JNum(1))>>)>>),
     JList(<<JList(<<JNum(1)>>)>>),
     JDict(<<Item("value", JStr(Jan))>>),
     JDict(<<Item("value", JDict(<<Item("nazwa", JStr(Jan))>>))>>),
     JDict(<<Item("inne", JStr(Jan))>>)}

\* one entry of the historical identifier list
IdentifierEntries ==
    { JDict(<<Item("identyfikatory", JDict(Opt("nip", n) \o Opt("regon", r)))>>) :
        n \in {Absent, JStr(V12), JStr(V2)},
        r \in {Absent, JNull, JStr(No1)} }
    \cup {JNull, JStr(V12)}

IdentifierShapes ==
    {Absent, JNull, JNum(7),
     JDict(<<Item("nip", JStr(V12)), Item("regon", JStr(No1))>>)}
    \cup {JList(l) : l \in SeqsUpTo(IdentifierEntries, MaxHistory)}

\* a KRS payload around the danePodmiotu, siedzibaIAdres, dzial2 and dzial3
\* sub-structures given
KRSPayload(dane_podmiotu, siedziba, dzial2, dzial3) ==
    JDict(<<Item("odpis",
        JDict(<<Item("naglowekA", JDict(<<Item("numerKRS", JStr(V12))>>)),
                Item("dane",
                    JDict(Opt("dzial1",
                              JDict(Opt("danePodmiotu", dane_podmiotu)
                                    \o Opt("siedzibaIAdres", siedziba)))
                          \o Opt("dzial2", dzial2)
                          \o Opt("dzial3", dzial3)))>>))>>)

\* KRS payloads that differ in the outer nesting
KRSNestingPayloads ==
    { JDict(Opt("odpis", o)) :
        o \in {Absent, JNull, JNum(7), JStr(Jan), EmptyList,
               JList(<<JNum(7)>>),
               JDict(<<Item("naglowekP", JNull),
                       Item("naglowekA", JList(<<JDict(<<Item("numerKRS",
                                                          JNum(12))>>)>>)),
                       Item("dane", JNull)>>),
               JDict(<<Item("naglowekP", JStr(V12)),
                       Item("dane", JList(<<JDict(<<Item("dzial1",
                                                     JStr(Jan))>>)>>))>>)} }
    \cup {JDict(<<Item("dane", JDict(<<Item("dzial1", JDict(<<Item(
              "danePodmiotu", JDict(<<Item("nazwa", JStr(Jan))>>))>>))>>))>>)}

\* KRS payloads that differ in the text fields and the registration date
KRSTextPayloads ==
    { KRSPayload(JDict(Opt("nazwa", n) \o Opt("dataRejestracjiWKRS", d)),
                 Absent, Absent, Absent) :
        n \in TextShapes,
        d \in {Absent, JNull, JStr(Date1), JStr(Date1Time), JStr(DateBad),
               JNum(7), JList(<<JStr(Date1)>>)} }

\* KRS payloads that differ in the identifier history
KRSIdentifierPayloads ==
    { KRSPayload(JDict(Opt("identyfikatory", ids)), Absent, Absent, Absent) :
        ids \in IdentifierShapes }

\* KRS payloads that differ in the seat, the board and the PKD codes
KRSBlockPayloads ==
    { KRSPayload(Absent, s, b, p) :
        s \in {Absent, JNull, JStr(Jan),
               JDict(<<Item("adres", JAddrDict), Item("email", JStr(MailA))>>),
               JDict(<<Item("adres", JList(<<JAddrDict>>)),
                       Item("adresEmail", JList(<<JStr(MailA)>>))>>),
               JList(<<JDict(<<Item("adres", JStr(Warszawa)),
                               Item("telefon", JNum(7))>>)>>)},
        b \in {Absent, JNum(7),
               JDict(<<Item("reprezentacja", JDict(<<Item("skladOrganu",
                   JList(<<JDict(<<Item("imiona", JStr(Jan)),
                                   Item("nazwisko", JNull)>>),
                           JNull,
                           JDict(<<Item("identyfikator", JStr(Jan))>>)>>))>>))>>),
               JDict(<<Item("reprezentacja", JList(<<JDict(<<Item("skladOrganu",
                   JDict(<<Item("nazwisko", JList(<<JStr(Bea)>>)),
                           Item("identyfikator",
                                JDict(<<Item("pesel", JNum(7))>>))>>))>>)>>))>>)},
        p \in {Absent, JList(<<JNum(7)>>),
               JDict(<<Item("przedmiotDzialalnosci", JDict(<<Item(
                   "przedmiotPrzewazajacejDzialalnosci",
                   JList(<<JDict(<<Item("kodDzial", JList(<<JNum(1)>>))>>),
                           JStr(V12),
                           JDict(<<Item("kod", JStr(V2))>>)>>))>>))>>),
               JDict(<<Item("przedmiotDzialalnosci", JDict(<<Item(
                   "przedmiotPrzewazajacejDzialalnosci",
                   JDict(<<Item("kod", JDict(<<Item("inne", JNum(1))>>))>>))>>))>>)} }

\* one entry of a KRS activity-code list
KRSPkdEntries ==
    { JDict(<<Item(k, JStr(c))>>) : k \in {"kodDzial", "kod"}, c \in {V12, V2} }

\* KRS payloads that differ in the list of activity codes
KRSPkdPayloads ==
    { KRSPayload(Absent, Absent, Absent,
                 JDict(<<Item("przedmiotDzialalnosci", JDict(<<Item(
                     "przedmiotPrzewazajacejDzialalnosci", JList(l))>>))>>)) :
        l \in SeqsUpTo(KRSPkdEntries, MaxPkd) }

KRSPayloads ==
    KRSNestingPayloads \cup KRSTextPayloads \cup KRSIdentifierPayloads
    \cup KRSBlockPayloads \cup KRSPkdPayloads

---------------------------------------------------------------------------
(* Normalizing a fetched payload: fetch_and_normalize_krs and              *)
(* fetch_and_normalize_ceidg_by_nip hand the decoded payload to the        *)
(* normalizer and return what it returns; an exception it raises leaves    *)
(* the function uncaught.                                                  *)

NoResult == << >>

InitNorm ==
    /\ stage = "payload"
    /\ \/ source = "KRS" /\ payload \in KRSPayloads
       \/ source = "CEIDG" /\ payload \in CeidgPayloads
    /\ norm_result = NoResult
    /\ entity = EmptyEntity(LEGAL_PERSON)
    /\ profile = EmptyKRSProfile
    /\ all_identifiers = << >>
    /\ proposal = NoProposal
    /\ db = NoDb
    /\ runs = NoRuns

\* profile = normalize_krs_response(data)
NormalizeKRS ==
    /\ stage = "payload"
    /\ source = "KRS"
    /\ norm_result' = normalize_krs_response(payload)
    /\ stage' = "normalized"
    /\ UNCHANGED <<source, entity, profile, all_identifiers, proposal, payload,
                   db, runs>>

\* profile = normalize_ceidg_response(data)
NormalizeCEIDG ==
    /\ stage = "payload"
    /\ source = "CEIDG"
    /\ norm_result' = normalize_ceidg_response(payload)
    /\ stage' = "normalized"
    /\ UNCHANGED <<source, entity, profile, all_identifiers, proposal, payload,
                   db, runs>>

NextNorm ==
    \/ NormalizeKRS
    \/ NormalizeCEIDG

SpecNorm == InitNorm /\ [][NextNorm]_vars

---------------------------------------------------------------------------
(* Properties of the normalizers                                           *)

Normalized == stage = "normalized"

\* what the payload holds under a top-level key, Absent when it has none
Supplied(key) == JGet(payload, key, Absent)

\* a field of the returned profile that is a piece of text or absent
TextOrAbsent(v) == v = JNull \/ (v.t = "str" /\ Len(v.s) > 0)

\* C10: normalize_krs_response and normalize_ceidg_response return a
\* profile without raising for every payload object, whatever sub-structure
\* is missing, null or of an unexpected shape; each affected field of the
\* profile is absent: the owner's names when the owner block is not a dict
\* and the entry does not name the owner itself, the status when it is not
\* a string, the start date when it is not a string, the official name and
\* the registration date of a KRS entry when they hold no text.
C10_NormalizersNeverRaise ==
    Normalized =>
        /\ ~IsRaise(norm_result)
        /\ source = "CEIDG" =>
              /\ (Supplied("wlasciciel").t # "dict"
                  /\ Supplied("imie") = Absent)
                    => norm_result.first_name = JNull
              /\ Supplied("status").t # "str" => norm_result.status = JNull
              /\ Supplied("dataRozpoczeciaDzialalnosci").t # "str"
                    => norm_result.start_date = JNull
        /\ source = "KRS" =>
              /\ TextOrAbsent(norm_result.official_name)
              /\ norm_result.registration_date.t \in {"null", "date"}

---------------------------------------------------------------------------
(* The Shape Coercion Layer on its own: _ensure_str applied to one value   *)

\* the longest list among the values handed to _ensure_str
MaxListLen == 2

Scalars ==
    {JNull, JStr(EmptyStr), JStr(Blank), JStr(Jan), JStr(V12space),
     JStr(MailAPadded), JNum(0), JNum(7), JBool(TRUE), JBool(FALSE)}

\* what a key of a dict holds: nothing, a scalar, or a nested dict or list
DictValues ==
    {Absent} \cup Scalars
    \cup {JDict(<<Item("nazwa", JStr(Jan))>>), JList(<<JNum(1)>>)}

\* dicts with a key _ensure_str looks for ("nazwa") and one it does not
CoercedDicts ==
    { JDict(Opt("inne", a) \o Opt("nazwa", b)) :
        a \in DictValues, b \in DictValues }

EnsureStrInputs ==
    Scalars
    \cup {JList(l) : l \in SeqsUpTo(Scalars, MaxListLen)}
    \cup CoercedDicts
    \cup {JList(<<d>>) : d \in CoercedDicts}
    \cup {JList(<<JList(<<JStr(Jan)>>)>>),
          JList(<<JDict(<<Item("inne", JStr(Blank))>>), JStr(Jan)>>)}

InitEnsureStr ==
    /\ stage = "value"
    /\ source = "KRS"
    /\ payload \in EnsureStrInputs
    /\ norm_result = NoResult
    /\ entity = EmptyEntity(LEGAL_PERSON)
    /\ profile = EmptyKRSProfile
    /\ all_identifiers = << >>
    /\ proposal = NoProposal
    /\ db = NoDb
    /\ runs = NoRuns

\* _ensure_str(value)
EnsureStr ==
    /\ stage = "value"
    /\ norm_result' = _ensure_str(payload)
    /\ stage' = "coerced"
    /\ UNCHANGED <<source, entity, profile, all_identifiers, proposal, payload,
                   db, runs>>

NextEnsureStr == EnsureStr

SpecEnsureStr == InitEnsureStr /\ [][NextEnsureStr]_vars

Coerced == stage = "coerced"

\* the texts of the scalars found anywhere in a value
RECURSIVE ScalarTexts(_)
ScalarTexts(v) ==
    CASE v.t = "str"  -> {v.s}
      [] v.t \in {"num", "bool"} -> {JStrOf(v)}
      [] v.t = "list" -> UNION {ScalarTexts(v.l[i]) : i \in 1..Len(v.l)}
      [] v.t = "dict" -> UNION {ScalarTexts(v.d[i].v) : i \in 1..Len(v.d)}
      [] OTHER -> {}

\* C11: for every input among absent, empty string, empty list, list of
\* scalars, list of dicts, nested dict, numbers and booleans, _ensure_str
\* never raises and returns either absent or the non-empty text of a scalar
\* found in the input, never the rendering of a list or dict.
C11_EnsureStrReturnsScalarText ==
    Coerced =>
        /\ ~IsRaise(norm_result)
        /\ \/ norm_result = JNull
           \/ /\ norm_result.t = "str"
              /\ Len(norm_result.s) > 0
              /\ norm_result.s \in ScalarTexts(payload)

---------------------------------------------------------------------------
(* The historical identifier list of a KRS payload.                        *)

\* the payload's odpis.dane.dzial1.danePodmiotu.identyfikatory
IdentifierHistory ==
    JGet(Lookup(Lookup(Lookup(Lookup(payload, "odpis"), "dane"), "dzial1"),
                "danePodmiotu"),
         "identyfikatory", Absent)

HasIdentifierHistory ==
    /\ source = "KRS"
    /\ payload \in KRSIdentifierPayloads
    /\ IdentifierHistory.t = "list"

\* the value of one kind an entry of the history holds, JNull when it holds
\* none
EntryValue(entry, kind) ==
    IF entry.t = "dict" /\ HasKey(entry, "identyfikatory")
    THEN LET inner == Lookup(entry, "identyfikatory")
         IN  IF inner.t = "dict" /\ HasKey(inner, kind)
                /\ Lookup(inner, kind).t = "str"
                /\ Len(Lookup(inner, kind).s) > 0
             THEN Lookup(inner, kind)
             ELSE JNull
    ELSE JNull

\* the value of the last entry in list order that holds a value of the kind
LastValue(history, kind) ==
    LET holders == {i \in 1..Len(history) : EntryValue(history[i], kind) # JNull}
    IN  IF holders = {} THEN JNull
        ELSE EntryValue(history[CHOOSE i \in holders :
                                    \A j \in holders : j <= i], kind)

\* C12: when the KRS payload holds a list of historical identifier entries,
\* the profile's NIP, and likewise its REGON, is the value of the last entry
\* in list order that holds a value of that kind, and is absent when no entry
\* holds one; an earlier entry's value is kept only when every later entry
\* lacks the kind.
C12_IdentifierOfLastHoldingEntry ==
    (Normalized /\ HasIdentifierHistory) =>
        /\ ~IsRaise(norm_result)
        /\ norm_result.nip = LastValue(IdentifierHistory.l, "nip")
        /\ norm_result.regon = LastValue(IdentifierHistory.l, "regon")

\* two entries hold a NIP and only the earlier one a REGON: the NIP is the
\* later entry's, the REGON the earlier entry's
C12_Witness ==
    /\ Normalized
    /\ HasIdentifierHistory
    /\ Len(IdentifierHistory.l) = 2
    /\ EntryValue(IdentifierHistory.l[1], "nip") = JStr(V12)
    /\ EntryValue(IdentifierHistory.l[2], "nip") = JStr(V2)
    /\ EntryValue(IdentifierHistory.l[1], "regon") = JStr(No1)
    /\ EntryValue(IdentifierHistory.l[2], "regon") = JNull
    /\ ~IsRaise(norm_result)
    /\ norm_result.nip = JStr(V2)
    /\ norm_result.regon = JStr(No1)

---------------------------------------------------------------------------
(* The store: the tables of entities.py and registry/storage.py, each a    *)
(* sequence of rows in insertion order, the entities a function of the     *)
(* entity id.  A storage call is one transaction (db.py): it commits, or   *)
(* it raises and leaves the tables as they were.  A call returns the       *)
(* tables after it, the exception it raised (NoneVal for none) and its     *)
(* value.                                                                  *)

Ok(store, value) == [db |-> store, exc |-> NoneVal, value |-> value]
Failed(store, exc) == [db |-> store, exc |-> exc, value |-> NoneVal]

EntityNotFoundError == T("EntityNotFoundError")
DuplicateIdentifierError == T("DuplicateIdentifierError")
IntegrityError == T("IntegrityError")
OperationalError == T("OperationalError")
KeyError == T("KeyError")

\* str(uuid4()): the n-th id the store was handed
Uuids ==
    <<"u1", "u2", "u3", "u4", "u5", "u6", "u7", "u8", "u9", "u10", "u11",
      "u12", "u13", "u14", "u15", "u16", "u17", "u18", "u19", "u20">>
uuid4(store) == T(Uuids[store.issued + 1])

AddressColumns == {AddressKeys[i] : i \in 1..Len(AddressKeys)}

\* the columns update_entity writes per entity type
PhysicalPersonFields ==
    {"first_name", "middle_names", "last_name", "date_of_birth",
     "citizenship_country", "is_deceased"}
LegalPersonFields ==
    {"registered_name", "short_name", "legal_kind", "legal_nature",
     "legal_form_suffix", "country"}

\* the rows of a table that belong to an entity
RowsOf(rows, entity_id) == SelectSeq(rows, LAMBDA r : r.entity_id = entity_id)
RowsNotOf(rows, entity_id) == SelectSeq(rows, LAMBDA r : r.entity_id # entity_id)

\* ORDER BY identifier_type / ORDER BY contact_type
IdentifierTypeOrder == <<KRS, NIP, REGON>>
ContactTypeOrder == <<EMAIL, PHONE, WEBSITE>>

RECURSIVE OrderedBy(_, _, _, _)
OrderedBy(rows, column, order, i) ==
    IF i > Len(order) THEN <<>>
    ELSE SelectSeq(rows, LAMBDA r : r[column] = order[i])
         \o OrderedBy(rows, column, order, i + 1)

\* entities.get_entity
get_entity(store, entity_id) ==
    IF entity_id \notin DOMAIN store.entities
    THEN Failed(store, EntityNotFoundError)
    ELSE Ok(store,
            [id |-> entity_id] @@ store.entities[entity_id]
            @@ [identifiers |->
                    OrderedBy(RowsOf(store.identifiers, entity_id),
                              "identifier_type", IdentifierTypeOrder, 1),
                addresses |-> RowsOf(store.addresses, entity_id),
                contacts |->
                    OrderedBy(RowsOf(store.contacts, entity_id),
                              "contact_type", ContactTypeOrder, 1)])

\* the columns one update_entity call sets
UpdatedColumns(entity_type, entity_data) ==
    (DOMAIN entity_data \cap {"canonical_label"})
    \cup (IF entity_type = PHYSICAL_PERSON
          THEN DOMAIN entity_data \cap PhysicalPersonFields
          ELSE IF entity_type = LEGAL_PERSON
          THEN DOMAIN entity_data \cap LegalPersonFields
          ELSE {})

\* entities.update_entity
update_entity(store, entity_id, entity_data, fault) ==
    LET existing == get_entity(store, entity_id)
    IN  IF existing.exc # NoneVal THEN existing
        ELSE IF fault THEN Failed(store, OperationalError)
        ELSE IF "status" \in DOMAIN entity_data
                /\ "notes" \notin DOMAIN entity_data
        THEN Failed(store, KeyError)
        ELSE
          LET written == UpdatedColumns(existing.value.entity_type, entity_data)
              row == store.entities[entity_id]
          IN  Ok([store EXCEPT !.entities[entity_id] =
                     [k \in DOMAIN row |->
                         IF k \in written THEN entity_data[k] ELSE row[k]]],
                 NoneVal)

\* a variant without the unique constraint: only the reference to the entity
IdentifierIntegrityViolated_reference_only(store, entity_id, identifier_type, identifier_value) ==
    entity_id \notin DOMAIN store.entities

\* the unique constraint on (identifier_type, identifier_value) and the
\* reference to the entity: what makes the INSERT raise IntegrityError
IdentifierIntegrityViolated(store, entity_id, identifier_type, identifier_value) ==
    \/ entity_id \notin DOMAIN store.entities
    \/ \E i \in 1..Len(store.identifiers) :
           /\ store.identifiers[i].identifier_type = identifier_type
           /\ store.identifiers[i].identifier_value = identifier_value

\* entities.add_identifier
add_identifier(store, entity_id, identifier_type, identifier_value, registry_name, fault) ==
    IF fault THEN Failed(store, OperationalError)
    ELSE IF IdentifierIntegrityViolated(store, entity_id, identifier_type,
                                        identifier_value)
    THEN Failed(store, DuplicateIdentifierError)
    ELSE Ok([store EXCEPT
                !.identifiers =
                    Append(@, [id |-> uuid4(store), entity_id |-> entity_id,
                               identifier_type |-> identifier_type,
                               identifier_value |-> identifier_value,
                               registry_name |-> registry_name]),
                !.issued = @ + 1],
            uuid4(store))

\* entities.add_contact
add_contact(store, entity_id, contact_type, contact_value, label, fault) ==
    IF fault THEN Failed(store, OperationalError)
    ELSE IF entity_id \notin DOMAIN store.entities
    THEN Failed(store, IntegrityError)
    ELSE Ok([store EXCEPT
                !.contacts =
                    Append(@, [id |-> uuid4(store), entity_id |-> entity_id,
                               contact_type |-> contact_type,
                               contact_value |-> contact_value,
                               label |-> label]),
                !.issued = @ + 1],
            uuid4(store))

\* entities.add_address
add_address(store, entity_id, address_data, fault) ==
    IF fault THEN Failed(store, OperationalError)
    ELSE IF entity_id \notin DOMAIN store.entities
    THEN Failed(store, IntegrityError)
    ELSE Ok([store EXCEPT
                !.addresses =
                    Append(@, [k \in {"id", "entity_id"} \cup AddressColumns |->
                                  CASE k = "id" -> uuid4(store)
                                    [] k = "entity_id" -> entity_id
                                    [] k = "address_type" ->
                                           DictGet(address_data, k, MAIN)
                                    [] k = "country" ->
                                           DictGet(address_data, k, PL)
                                    [] OTHER ->
                                           DictGet(address_data, k, NoneVal)]),
                !.issued = @ + 1],
            uuid4(store))

\* entities.update_address: UPDATE addresses SET <every field that
\* address_data holds> WHERE id = address_id
update_address(store, address_id, address_data, fault) ==
    LET updates == AddressColumns \cap DOMAIN address_data
    IN  IF updates = {} THEN Ok(store, NoneVal)
        ELSE IF fault THEN Failed(store, OperationalError)
        ELSE Ok([store EXCEPT !.addresses =
                    [i \in 1..Len(store.addresses) |->
                        IF store.addresses[i].id = address_id
                        THEN [k \in DOMAIN store.addresses[i] |->
                                 IF k \in updates THEN address_data[k]
                                 ELSE store.addresses[i][k]]
                        ELSE store.addresses[i]]],
                NoneVal)

\* entities.delete_entity, and the ON DELETE CASCADE of the registry tables
\* that the DELETE FROM entities sets off
delete_entity(store, entity_id) ==
    LET existing == get_entity(store, entity_id)
    IN  IF existing.exc # NoneVal THEN existing
        ELSE Ok([store EXCEPT
                    !.identifiers = RowsNotOf(@, entity_id),
                    !.addresses = RowsNotOf(@, entity_id),
                    !.contacts = RowsNotOf(@, entity_id),
                    !.entities =
                        [e \in DOMAIN store.entities \ {entity_id} |->
                            store.entities[e]],
                    !.registry_snapshots = RowsNotOf(@, entity_id),
                    !.registry_profiles_krs = RowsNotOf(@, entity_id),
                    !.registry_profiles_ceidg = RowsNotOf(@, entity_id)],
                [identifiers |-> Len(RowsOf(store.identifiers, entity_id)),
                 addresses |-> Len(RowsOf(store.addresses, entity_id)),
                 contacts |-> Len(RowsOf(store.contacts, entity_id))])

\* the RegistrySnapshot that fetch_and_normalize_krs and
\* fetch_and_normalize_ceidg_by_nip build from the raw payload
RegistrySnapshot(entity_id, source_system, payload_raw) ==
    [entity_id |-> entity_id, source_system |-> source_system,
     payload_raw |-> payload_raw,
     payload_hash |-> <<"sha256">> \o payload_raw]

\* storage.insert_snapshot
insert_snapshot(store, snapshot, fault) ==
    IF fault THEN Failed(store, OperationalError)
    ELSE IF snapshot.entity_id # NoneVal
            /\ snapshot.entity_id \notin DOMAIN store.entities
    THEN Failed(store, IntegrityError)
    ELSE Ok([store EXCEPT
                !.registry_snapshots =
                    Append(@, [id |-> uuid4(store)] @@ snapshot),
                !.issued = @ + 1],
            uuid4(store))

\* a variant without the ON CONFLICT clause
Upsert_insert_only(rows, row) == Append(rows, row)

\* INSERT ... ON CONFLICT (entity_id) DO UPDATE SET ...
Upsert(rows, row) ==
    IF \E i \in 1..Len(rows) : rows[i].entity_id = row.entity_id
    THEN [i \in 1..Len(rows) |->
             IF rows[i].entity_id = row.entity_id THEN row ELSE rows[i]]
    ELSE Append(rows, row)

\* the references of a profile row: the entity and the snapshot
ProfileReferencesHold(store, entity_id, snapshot_id) ==
    /\ entity_id \in DOMAIN store.entities
    /\ \/ snapshot_id = NoneVal
       \/ \E i \in 1..Len(store.registry_snapshots) :
              store.registry_snapshots[i].id = snapshot_id

\* storage.upsert_krs_profile
upsert_krs_profile(store, entity_id, prof, snapshot_id, fault) ==
    IF fault THEN Failed(store, OperationalError)
    ELSE IF ~ProfileReferencesHold(store, entity_id, snapshot_id)
    THEN Failed(store, IntegrityError)
    ELSE Ok([store EXCEPT !.registry_profiles_krs =
                Upsert(@, [entity_id |-> entity_id, krs |-> prof.krs,
                           nip |-> prof.nip, regon |-> prof.regon,
                           official_name |-> prof.official_name,
                           short_name |-> prof.short_name,
                           legal_form |-> prof.legal_form,
                           last_snapshot_id |-> snapshot_id])],
            NoneVal)

\* storage.upsert_ceidg_profile
upsert_ceidg_profile(store, entity_id, prof, snapshot_id, fault) ==
    IF fault THEN Failed(store, OperationalError)
    ELSE IF ~ProfileReferencesHold(store, entity_id, snapshot_id)
    THEN Failed(store, IntegrityError)
    ELSE Ok([store EXCEPT !.registry_profiles_ceidg =
                Upsert(@, [entity_id |-> entity_id,
                           ceidg_id |-> prof.ceidg_id,
                           nip |-> prof.nip, regon |-> prof.regon,
                           first_name |-> prof.first_name,
                           last_name |-> prof.last_name,
                           business_name |-> prof.business_name,
                           last_snapshot_id |-> snapshot_id])],
            NoneVal)

---------------------------------------------------------------------------
(* commands.py: the Apply Engine (_apply_enrichment_selections) and the    *)
(* enrichment run (entity_enrich).  A run is a process; each of its        *)
(* storage calls is one step, and what it computes between two storage     *)
(* calls belongs to the step of the earlier call.  A run keeps the list    *)
(* of the storage calls it made.                                           *)

MaxFailures == 1

NoApplied ==
    [core |-> 0, type_specific |-> 0, identifiers |-> 0, contacts |-> 0,
     addresses |-> 0]

NoSelections ==
    [apply_core |-> FALSE, apply_type_specific |-> FALSE,
     identifiers |-> <<>>, contacts |-> <<>>, addresses |-> <<>>]

\* a storage call: its category, the item written, the exception raised
\* (NoneVal for none) and the entity columns it set
Call(category, item, exc, columns) ==
    [category |-> category, item |-> item, exc |-> exc, columns |-> columns]

\* the state of entity_enrich(entity_id, source, krs_number, nip_number,
\* apply_all) before its first statement
Run(entity_id, src, krs_number, nip_number, apply_all) ==
    [pc |-> "start", entity_id |-> entity_id, source |-> src,
     krs_number |-> krs_number, nip_number |-> nip_number,
     apply_all |-> apply_all,
     entity |-> NoneVal, profile |-> NoneVal, snapshot |-> NoneVal,
     proposal |-> NoProposal, snapshot_id |-> NoneVal, shown |-> <<>>,
     selections |-> NoSelections, applied |-> NoApplied, errors |-> <<>>,
     i |-> 1, calls |-> <<>>]

\* EnrichmentProposal.has_any_proposals
has_any_proposals(prop) ==
    \/ DOMAIN prop.core_updates # {}
    \/ DOMAIN prop.type_specific_updates # {}
    \/ prop.identifiers_to_add # <<>>
    \/ prop.contacts_to_add # <<>>
    \/ prop.address_proposals # <<>>

Shown(kind, item) == [kind |-> kind, item |-> item]
ShownEach(kind, items) == [i \in 1..Len(items) |-> Shown(kind, items[i])]

\* ui.render_proposal_summary: what it prints below the header panel
render_proposal_summary(prop) ==
    IF ~has_any_proposals(prop)
    THEN <<Shown("no_changes", NoneVal)>>
    ELSE ShownEach("warning", prop.warnings)
         \o ShownEach("info", prop.info_messages)
         \o (IF DOMAIN prop.core_updates # {}
             THEN <<Shown("core", prop.core_updates)>> ELSE <<>>)
         \o (IF DOMAIN prop.type_specific_updates # {}
             THEN <<Shown("type_specific", prop.type_specific_updates)>>
             ELSE <<>>)
         \o ShownEach("identifier", prop.identifiers_to_add)
         \o ShownEach("contact", prop.contacts_to_add)
         \o ShownEach("address", prop.address_proposals)

\* the elements of a sequence at the indexes of a set, in order
RECURSIVE Pick(_, _, _)
Pick(seq, indexes, i) ==
    IF i > Len(seq) THEN <<>>
    ELSE (IF i \in indexes THEN <<seq[i]>> ELSE <<>>)
         \o Pick(seq, indexes, i + 1)

SubSeqs(seq) == {Pick(seq, indexes, 1) : indexes \in SUBSET (1..Len(seq))}

\* the selections of entity_enrich --apply-all
apply_all_selections(prop) ==
    [apply_core |-> DOMAIN prop.core_updates # {},
     apply_type_specific |-> DOMAIN prop.type_specific_updates # {},
     identifiers |-> SelectSeq(prop.identifiers_to_add,
                               LAMBDA p : p.action = ADD),
     contacts |-> prop.contacts_to_add,
     addresses |-> SelectSeq(prop.address_proposals,
                             LAMBDA p : p.action = ADD)]

\* ui.prompt_apply_proposal: the selections it can return, over the
\* answers the operator can give
prompt_apply_proposal(prop) ==
    IF ~has_any_proposals(prop) THEN {NoSelections}
    ELSE {NoSelections} \cup
      UNION {
        { [apply_core |-> core, apply_type_specific |-> type_specific,
           identifiers |-> identifiers, contacts |-> contacts,
           addresses |-> addresses] :
            core \in IF DOMAIN prop.core_updates = {} THEN {FALSE}
                     ELSE IF apply_all THEN {TRUE} ELSE BOOLEAN,
            type_specific \in
                     IF DOMAIN prop.type_specific_updates = {} THEN {FALSE}
                     ELSE IF apply_all THEN {TRUE} ELSE BOOLEAN,
            identifiers \in
                { l \in SubSeqs(prop.identifiers_to_add) :
                    /\ \A k \in 1..Len(l) : l[k].action # SKIP
                    /\ apply_all =>
                         l = SelectSeq(prop.identifiers_to_add,
                                       LAMBDA p : p.action # SKIP) },
            contacts \in
                { l \in SubSeqs(prop.contacts_to_add) :
                    apply_all => l = prop.contacts_to_add },
            addresses \in
                { l \in SubSeqs(prop.address_proposals) :
                    apply_all =>
                        SelectSeq(l, LAMBDA p : p.action = ADD)
                        = SelectSeq(prop.address_proposals,
                                    LAMBDA p : p.action = ADD) } } :
        apply_all \in BOOLEAN }

\* the phases of _apply_enrichment_selections
ApplyPhases ==
    {"core", "type_specific", "identifiers", "contacts", "addresses"}

\* a variant that writes every listed identifier proposal, whatever its
\* action
Pending_any_action(run) ==
    CASE run.pc = "core" ->
             run.selections.apply_core
             /\ DOMAIN run.proposal.core_updates # {}
      [] run.pc = "type_specific" ->
             run.selections.apply_type_specific
             /\ DOMAIN run.proposal.type_specific_updates # {}
      [] run.pc = "identifiers" -> run.i <= Len(run.selections.identifiers)
      [] run.pc = "contacts" -> run.i <= Len(run.selections.contacts)
      [] run.pc = "addresses" -> run.i <= Len(run.selections.addresses)
      [] OTHER -> TRUE

\* the run is at a storage call of the Apply Engine (or past the engine)
Pending(run) ==
    CASE run.pc = "core" ->
             run.selections.apply_core
             /\ DOMAIN run.proposal.core_updates # {}
      [] run.pc = "type_specific" ->
             run.selections.apply_type_specific
             /\ DOMAIN run.proposal.type_specific_updates # {}
      [] run.pc = "identifiers" ->
             /\ run.i <= Len(run.selections.identifiers)
             /\ run.selections.identifiers[run.i].action = ADD
      [] run.pc = "contacts" -> run.i <= Len(run.selections.contacts)
      [] run.pc = "addresses" -> run.i <= Len(run.selections.addresses)
      [] OTHER -> TRUE

\* the position after the current one
Following(run) ==
    CASE run.pc = "core" -> [run EXCEPT !.pc = "type_specific"]
      [] run.pc = "type_specific" ->
             [run EXCEPT !.pc = "identifiers", !.i = 1]
      [] run.pc = "identifiers" ->
             IF run.i <= Len(run.selections.identifiers)
             THEN [run EXCEPT !.i = @ + 1]
             ELSE [run EXCEPT !.pc = "contacts", !.i = 1]
      [] run.pc = "contacts" ->
             IF run.i <= Len(run.selections.contacts)
             THEN [run EXCEPT !.i = @ + 1]
             ELSE [run EXCEPT !.pc = "addresses", !.i = 1]
      [] run.pc = "addresses" ->
             IF run.i <= Len(run.selections.addresses)
             THEN [run EXCEPT !.i = @ + 1]
             ELSE [run EXCEPT !.pc = "returned", !.i = 1]
      [] OTHER -> run

\* the run moved on to its next storage call
RECURSIVE NextWrite(_)
NextWrite(run) ==
    IF run.pc \notin ApplyPhases \/ Pending(run) THEN run
    ELSE NextWrite(Following(run))

\* the outcome of one step: the tables and the run after it
Outcome(store, run) == [db |-> store, run |-> run]

\* "Apply core updates"
apply_core(run, store, fault) ==
    LET entity_data == run.proposal.core_updates
        res == update_entity(store, run.entity_id, entity_data, fault)
    IN  IF res.exc = NoneVal
        THEN Outcome(res.db,
                 [run EXCEPT
                     !.applied.core = Cardinality(DOMAIN entity_data),
                     !.calls = Append(@, Call("core", entity_data, NoneVal,
                         UpdatedColumns(store.entities[run.entity_id].entity_type,
                                        entity_data)))])
        ELSE Outcome(res.db,
                 [run EXCEPT
                     !.errors = Append(@, Message("Core update failed",
                                                  EmptyStr, NoneVal, res.exc)),
                     !.calls = Append(@, Call("core", entity_data, res.exc,
                                              {}))])

\* "Apply type-specific updates"
apply_type_specific(run, store, fault) ==
    LET entity_data == run.proposal.type_specific_updates
        res == update_entity(store, run.entity_id, entity_data, fault)
    IN  IF res.exc = NoneVal
        THEN Outcome(res.db,
                 [run EXCEPT
                     !.applied.type_specific = Cardinality(DOMAIN entity_data),
                     !.calls = Append(@, Call("type_specific", entity_data,
                         NoneVal,
                         UpdatedColumns(store.entities[run.entity_id].entity_type,
                                        entity_data)))])
        ELSE Outcome(res.db,
                 [run EXCEPT
                     !.errors = Append(@, Message("Type-specific update failed",
                                                  EmptyStr, NoneVal, res.exc)),
                     !.calls = Append(@, Call("type_specific", entity_data,
                                              res.exc, {}))])

\* a variant that counts the identifier before it is written
apply_identifier_counts_attempts(run, store, fault) ==
    LET ident_proposal == run.selections.identifiers[run.i]
        res == add_identifier(store, run.entity_id,
                              ident_proposal.identifier_type,
                              ident_proposal.identifier_value,
                              ident_proposal.registry_name, fault)
        counted == [run EXCEPT
                       !.applied.identifiers = @ + 1,
                       !.calls = Append(@, Call("identifiers", ident_proposal,
                                                res.exc, {}))]
    IN  IF res.exc = NoneVal THEN Outcome(res.db, counted)
        ELSE IF res.exc = DuplicateIdentifierError
        THEN Outcome(res.db,
                 [counted EXCEPT
                     !.errors = Append(@, Message("Duplicate",
                                           ident_proposal.identifier_type,
                                           ident_proposal.identifier_value,
                                           NoneVal))])
        ELSE Outcome(res.db,
                 [counted EXCEPT
                     !.errors = Append(@, Message("Identifier add failed",
                                                  EmptyStr, NoneVal, res.exc))])

\* a variant in which the error of an identifier ends the call
apply_identifier_aborts(run, store, fault) ==
    LET ident_proposal == run.selections.identifiers[run.i]
        res == add_identifier(store, run.entity_id,
                              ident_proposal.identifier_type,
                              ident_proposal.identifier_value,
                              ident_proposal.registry_name, fault)
        called == [run EXCEPT
                      !.calls = Append(@, Call("identifiers", ident_proposal,
                                               res.exc, {}))]
    IN  IF res.exc = NoneVal
        THEN Outcome(res.db, [called EXCEPT !.applied.identifiers = @ + 1])
        ELSE Outcome(res.db,
                 [called EXCEPT
                     !.errors = Append(@, Message("Identifier add failed",
                                                  EmptyStr, NoneVal, res.exc)),
                     !.pc = "addresses",
                     !.i = Len(run.selections.addresses) + 1])

\* "Apply identifiers", one iteration of the loop
apply_identifier(run, store, fault) ==
    LET ident_proposal == run.selections.identifiers[run.i]
        res == add_identifier(store, run.entity_id,
                              ident_proposal.identifier_type,
                              ident_proposal.identifier_value,
                              ident_proposal.registry_name, fault)
        called == [run EXCEPT
                      !.calls = Append(@, Call("identifiers", ident_proposal,
                                               res.exc, {}))]
    IN  IF res.exc = NoneVal
        THEN Outcome(res.db, [called EXCEPT !.applied.identifiers = @ + 1])
        ELSE IF res.exc = DuplicateIdentifierError
        THEN Outcome(res.db,
                 [called EXCEPT
                     !.errors = Append(@, Message("Duplicate",
                                           ident_proposal.identifier_type,
                                           ident_proposal.identifier_value,
                                           NoneVal))])
        ELSE Outcome(res.db,
                 [called EXCEPT
                     !.errors = Append(@, Message("Identifier add failed",
                                                  EmptyStr, NoneVal, res.exc))])

\* "Apply contacts", one iteration of the loop
apply_contact(run, store, fault) ==
    LET contact_proposal == run.selections.contacts[run.i]
        res == add_contact(store, run.entity_id,
                           contact_proposal.contact_type,
                           contact_proposal.contact_value,
                           contact_proposal.label, fault)
        called == [run EXCEPT
                      !.calls = Append(@, Call("contacts", contact_proposal,
                                               res.exc, {}))]
    IN  IF res.exc = NoneVal
        THEN Outcome(res.db, [called EXCEPT !.applied.contacts = @ + 1])
        ELSE Outcome(res.db,
                 [called EXCEPT
                     !.errors = Append(@, Message("Contact add failed",
                                                  EmptyStr, NoneVal, res.exc))])

\* "Apply addresses", one iteration of the loop
apply_address(run, store, fault) ==
    LET addr_proposal == run.selections.addresses[run.i]
        res == IF addr_proposal.action = ADD
               THEN add_address(store, run.entity_id,
                                to_dict(addr_proposal.address), fault)
               ELSE IF addr_proposal.action = UPDATE
               THEN update_address(store, addr_proposal.existing_address_id,
                                   to_dict(addr_proposal.address), fault)
               ELSE Ok(store, NoneVal)
        called == [run EXCEPT
                      !.calls = Append(@, Call("addresses", addr_proposal,
                                               res.exc, {}))]
    IN  IF res.exc = NoneVal
        THEN Outcome(res.db, [called EXCEPT !.applied.addresses = @ + 1])
        ELSE Outcome(res.db,
                 [called EXCEPT
                     !.errors = Append(@, Message("Address operation failed",
                                                  EmptyStr, NoneVal, res.exc))])

\* sum(applied.values())
SumApplied(applied) ==
    applied.core + applied.type_specific + applied.identifiers
    + applied.contacts + applied.addresses

\* the storage calls that failed for a reason outside the data: the
\* connection was lost, the statement timed out
RECURSIVE FaultsIn(_, _)
FaultsIn(rs, r) ==
    IF r > Len(rs) THEN 0
    ELSE Len(SelectSeq(rs[r].calls, LAMBDA c : c.exc = OperationalError))
         + FaultsIn(rs, r + 1)

\* whether the next storage call may fail in that way
FaultChoices == IF FaultsIn(runs, 1) < MaxFailures THEN BOOLEAN ELSE {FALSE}

\* lookup_key of entity_enrich; regon_number is not given
RECURSIVE FirstOfTypes(_, _, _)
FirstOfTypes(identifiers, types, i) ==
    IF i > Len(identifiers) THEN <<>>
    ELSE IF identifiers[i].identifier_type \in types THEN <<identifiers[i]>>
    ELSE FirstOfTypes(identifiers, types, i + 1)

lookup_key(run, ent, src) ==
    IF src = T("krs")
    THEN IF Truthy(run.krs_number) THEN run.krs_number
         ELSE LET found == FirstOfTypes(ent.identifiers, {KRS}, 1)
              IN  IF found = <<>> THEN NoneVal
                  ELSE found[1].identifier_value
    ELSE IF Truthy(run.nip_number) THEN <<"NIP:">> \o run.nip_number
         ELSE LET found == FirstOfTypes(ent.identifiers, {NIP, REGON}, 1)
              IN  IF found = <<>> THEN NoneVal
                  ELSE found[1].identifier_type \o <<":">>
                       \o PyStr(found[1].identifier_value)

\* what the registry can answer: nothing (a client error), or a payload
\* with the profile the normalizer makes of it
NotFound == [found |-> FALSE]
Answer(prof, raw_json) == [found |-> TRUE, profile |-> prof, raw_json |-> raw_json]

KRSAnswers ==
    {NotFound,
     Answer(NormalizedKRSProfile(V12, NoneVal, NoneVal, NoneVal, NoneVal,
                                 NoneVal, NoneVal, NoneVal, NoneVal, <<>>, <<>>),
            T("krs-json-0")),
     Answer(NormalizedKRSProfile(V12, V2, NoneVal, NoneVal, NoneVal,
                                 NoneVal, MailA, NoneVal, NoneVal,
                                 <<CanonKrakow>>, <<>>),
            T("krs-json-1")),
     Answer(NormalizedKRSProfile(V12, V12, NoneVal, Jan, NoneVal, NoneVal,
                                 NoneVal, NoneVal, NoneVal, <<>>, <<>>),
            T("krs-json-2"))}

CEIDGAnswers ==
    {Answer(NormalizedCEIDGProfile(NoneVal, V2, NoneVal, Jan, Bea, NoneVal,
                                   NoneVal, NoneVal, NoneVal, <<>>, <<>>,
                                   <<>>),
            T("ceidg-json-1"))}

\* entity_enrich up to the proposal: get_entity, the lookup key,
\* fetch_and_normalize_*, generate_*_proposal
Fetched(run, ent, src, answer) ==
    IF src = T("krs")
    THEN [run EXCEPT
             !.pc = "fetched", !.source = src, !.entity = ent,
             !.profile = krs_profile_after(answer.profile),
             !.snapshot = RegistrySnapshot(run.entity_id, T("KRS"),
                                           answer.raw_json),
             !.proposal = generate_krs_proposal(ent, answer.profile, <<>>)]
    ELSE [run EXCEPT
             !.pc = "fetched", !.source = src, !.entity = ent,
             !.profile = ceidg_profile_after(answer.profile),
             !.snapshot = RegistrySnapshot(run.entity_id, T("CEIDG"),
                                           answer.raw_json),
             !.proposal = generate_ceidg_proposal(ent, answer.profile, <<>>)]

Unused ==
    UNCHANGED <<stage, source, entity, profile, all_identifiers, proposal,
                payload, norm_result>>

Start(r) ==
    /\ r \in DOMAIN runs
    /\ runs[r].pc = "start"
    /\ LET run == runs[r]
           got == get_entity(db, run.entity_id)
       IN  IF got.exc # NoneVal
           THEN runs' = [runs EXCEPT ![r].pc = "done"]
           ELSE
             LET ent == got.value
                 src == IF Truthy(run.source) THEN run.source
                        ELSE IF ent.entity_type = LEGAL_PERSON
                        THEN T("krs") ELSE T("ceidg")
             IN  IF ~Truthy(lookup_key(run, ent, src))
                 THEN runs' = [runs EXCEPT ![r].pc = "done"]
                 ELSE \E answer \in IF src = T("krs") THEN KRSAnswers
                                    ELSE CEIDGAnswers :
                        runs' = [runs EXCEPT ![r] =
                                    IF answer.found
                                    THEN Fetched(run, ent, src, answer)
                                    ELSE [run EXCEPT !.pc = "done"]]
    /\ UNCHANGED db
    /\ Unused

\* a variant that goes on to the proposal when the insert raised
StoreSnapshot_ignoring_failure(r) ==
    /\ r \in DOMAIN runs
    /\ runs[r].pc = "fetched"
    /\ \E fault \in FaultChoices :
         LET run == runs[r]
             res == insert_snapshot(db, run.snapshot, fault)
             called == [run EXCEPT
                           !.calls = Append(@, Call("snapshot", run.snapshot,
                                                    res.exc, {}))]
         IN  /\ db' = res.db
             /\ runs' = [runs EXCEPT ![r] =
                    [called EXCEPT
                        !.snapshot_id = res.value,
                        !.proposal.snapshot_id = res.value,
                        !.shown = render_proposal_summary(run.proposal),
                        !.pc = IF has_any_proposals(run.proposal)
                               THEN "select" ELSE "done"]]
    /\ Unused

\* "Store snapshot", "Show proposal", and the return when nothing is
\* proposed
StoreSnapshot(r) ==
    /\ r \in DOMAIN runs
    /\ runs[r].pc = "fetched"
    /\ \E fault \in FaultChoices :
         LET run == runs[r]
             res == insert_snapshot(db, run.snapshot, fault)
             called == [run EXCEPT
                           !.calls = Append(@, Call("snapshot", run.snapshot,
                                                    res.exc, {}))]
         IN  /\ db' = res.db
             /\ runs' = [runs EXCEPT ![r] =
                    IF res.exc # NoneVal
                    THEN [called EXCEPT !.pc = "crashed"]
                    ELSE [called EXCEPT
                             !.snapshot_id = res.value,
                             !.proposal.snapshot_id = res.value,
                             !.shown = render_proposal_summary(run.proposal),
                             !.pc = IF has_any_proposals(run.proposal)
                                    THEN "select" ELSE "done"]]
    /\ Unused

\* "Get selections" with --apply-all
SelectApplyAll(r) ==
    /\ r \in DOMAIN runs
    /\ runs[r].pc = "select"
    /\ runs[r].apply_all
    /\ runs' = [runs EXCEPT ![r] =
           NextWrite([runs[r] EXCEPT
                         !.pc = "core",
                         !.selections = apply_all_selections(runs[r].proposal)])]
    /\ UNCHANGED db
    /\ Unused

\* "Get selections" from the operator
SelectPrompt(r) ==
    /\ r \in DOMAIN runs
    /\ runs[r].pc = "select"
    /\ ~runs[r].apply_all
    /\ \E selections \in prompt_apply_proposal(runs[r].proposal) :
         runs' = [runs EXCEPT ![r] =
             NextWrite([runs[r] EXCEPT !.pc = "core",
                                       !.selections = selections])]
    /\ UNCHANGED db
    /\ Unused

ApplyCore(r) ==
    /\ r \in DOMAIN runs
    /\ runs[r].pc = "core"
    /\ \E fault \in FaultChoices :
         LET out == apply_core(runs[r], db, fault)
         IN  /\ db' = out.db
             /\ runs' = [runs EXCEPT ![r] = NextWrite(Following(out.run))]
    /\ Unused

ApplyTypeSpecific(r) ==
    /\ r \in DOMAIN runs
    /\ runs[r].pc = "type_specific"
    /\ \E fault \in FaultChoices :
         LET out == apply_type_specific(runs[r], db, fault)
         IN  /\ db' = out.db
             /\ runs' = [runs EXCEPT ![r] = NextWrite(Following(out.run))]
    /\ Unused

ApplyIdentifier(r) ==
    /\ r \in DOMAIN runs
    /\ runs[r].pc = "identifiers"
    /\ \E fault \in FaultChoices :
         LET out == apply_identifier(runs[r], db, fault)
         IN  /\ db' = out.db
             /\ runs' = [runs EXCEPT ![r] = NextWrite(Following(out.run))]
    /\ Unused

ApplyContact(r) ==
    /\ r \in DOMAIN runs
    /\ runs[r].pc = "contacts"
    /\ \E fault \in FaultChoices :
         LET out == apply_contact(runs[r], db, fault)
         IN  /\ db' = out.db
             /\ runs' = [runs EXCEPT ![r] = NextWrite(Following(out.run))]
    /\ Unused

ApplyAddress(r) ==
    /\ r \in DOMAIN runs
    /\ runs[r].pc = "addresses"
    /\ \E fault \in FaultChoices :
         LET out == apply_address(runs[r], db, fault)
         IN  /\ db' = out.db
             /\ runs' = [runs EXCEPT ![r] = NextWrite(Following(out.run))]
    /\ Unused

\* "Store profile" when something was applied, and the end of the run
StoreProfile(r) ==
    /\ r \in DOMAIN runs
    /\ runs[r].pc = "returned"
    /\ LET run == runs[r]
       IN  IF SumApplied(run.applied) > 0
           THEN \E fault \in FaultChoices :
                  LET res == IF run.source = T("krs")
                             THEN upsert_krs_profile(db, run.entity_id,
                                      run.profile, run.snapshot_id, fault)
                             ELSE upsert_ceidg_profile(db, run.entity_id,
                                      run.profile, run.snapshot_id, fault)
                  IN  /\ db' = res.db
                      /\ runs' = [runs EXCEPT ![r] =
                             [run EXCEPT
                                 !.calls = Append(@, Call("profile",
                                                run.profile, res.exc, {})),
                                 !.pc = IF res.exc = NoneVal THEN "done"
                                        ELSE "crashed"]]
           ELSE /\ db' = db
                /\ runs' = [runs EXCEPT ![r].pc = "done"]
    /\ Unused

\* the operator deletes the entity the runs enrich (entity delete)
DeleteEntity ==
    /\ \E entity_id \in DOMAIN db.entities \cap {runs[r].entity_id : r \in DOMAIN runs} :
           db' = delete_entity(db, entity_id).db
    /\ UNCHANGED runs
    /\ Unused

---------------------------------------------------------------------------
(* The stores and the runs the specifications start from                   *)

EntityRow(entity_type, canonical_label, registered_name, short_name, legal_form_suffix, first_name, last_name) ==
    [entity_type |-> entity_type, canonical_label |-> canonical_label,
     registered_name |-> registered_name, short_name |-> short_name,
     legal_form_suffix |-> legal_form_suffix,
     first_name |-> first_name, last_name |-> last_name]

StoredIdentifier(id, entity_id, identifier_type, identifier_value) ==
    [id |-> id, entity_id |-> entity_id, identifier_type |-> identifier_type,
     identifier_value |-> identifier_value, registry_name |-> NoneVal]

\* an address row with every column, NULL where the dict names none
StoredAddress(row, entity_id) ==
    [k \in {"id", "entity_id"} \cup AddressColumns |->
        IF k = "entity_id" THEN entity_id ELSE DictGet(row, k, NoneVal)]

Store(entities, identifiers, contacts, addresses) ==
    [entities |-> entities, identifiers |-> identifiers,
     contacts |-> contacts, addresses |-> addresses,
     registry_snapshots |-> <<>>, registry_profiles_krs |-> <<>>,
     registry_profiles_ceidg |-> <<>>, issued |-> 0]

\* E2 is a person who holds the NIP V12
OtherEntity ==
    EntityRow(PHYSICAL_PERSON, Bea, NoneVal, NoneVal, NoneVal, Bea, Bea)

\* E1 is a legal person without label and names, E1 holds the identifiers
\* and addresses given
LegalStore(identifiers, addresses) ==
    Store((E1 :> EntityRow(LEGAL_PERSON, EmptyStr, EmptyStr, NoneVal, NoneVal,
                           NoneVal, NoneVal))
          @@ (E2 :> OtherEntity),
          identifiers \o <<StoredIdentifier(T("I2"), E2, NIP, V12)>>,
          <<>>, addresses)

\* E1 is a natural person without label and names
PhysicalStore ==
    Store((E1 :> EntityRow(PHYSICAL_PERSON, EmptyStr, NoneVal, NoneVal,
                           NoneVal, EmptyStr, EmptyStr))
          @@ (E2 :> OtherEntity),
          <<StoredIdentifier(T("I2"), E2, NIP, V12)>>, <<>>, <<>>)

\* two runs of entity enrich on E1, the second with --apply-all
InitEnrich ==
    /\ stage = "enrich"
    /\ source = "KRS"
    /\ entity = EmptyEntity(LEGAL_PERSON)
    /\ profile = EmptyKRSProfile
    /\ all_identifiers = << >>
    /\ proposal = NoProposal
    /\ payload = NoPayload
    /\ norm_result = NoResult
    /\ \E apply_all \in BOOLEAN :
         \/ /\ db = LegalStore(<<StoredIdentifier(T("I1"), E1, KRS, V12)>>, <<>>)
            /\ runs = <<Run(E1, NoneVal, NoneVal, NoneVal, apply_all),
                        Run(E1, NoneVal, NoneVal, NoneVal, TRUE)>>
         \/ /\ db = PhysicalStore
            /\ runs = <<Run(E1, NoneVal, NoneVal, V2, apply_all),
                        Run(E1, T("ceidg"), NoneVal, V2, TRUE)>>

NextEnrich ==
    \/ \E r \in DOMAIN runs : Start(r)
    \/ \E r \in DOMAIN runs : StoreSnapshot(r)
    \/ \E r \in DOMAIN runs : SelectApplyAll(r)
    \/ \E r \in DOMAIN runs : SelectPrompt(r)
    \/ \E r \in DOMAIN runs : ApplyCore(r)
    \/ \E r \in DOMAIN runs : ApplyTypeSpecific(r)
    \/ \E r \in DOMAIN runs : ApplyIdentifier(r)
    \/ \E r \in DOMAIN runs : ApplyContact(r)
    \/ \E r \in DOMAIN runs : ApplyAddress(r)
    \/ \E r \in DOMAIN runs : StoreProfile(r)
    \/ DeleteEntity

SpecEnrich == InitEnrich /\ [][NextEnrich]_vars

\* every selection a caller can make among the items of a proposal
AnySelections(prop) ==
    { [apply_core |-> core, apply_type_specific |-> type_specific,
       identifiers |-> identifiers, contacts |-> contacts,
       addresses |-> addresses] :
        core \in BOOLEAN, type_specific \in BOOLEAN,
        identifiers \in SubSeqs(prop.identifiers_to_add),
        contacts \in SubSeqs(prop.contacts_to_add),
        addresses \in SubSeqs(prop.address_proposals) }

\* the KRS profile of a company in Krakow and the CEIDG profile of a
\* trader in Warszawa
KrakowCompany ==
    NormalizedKRSProfile(V12, V12, V2, Jan, NoneVal, NoneVal, MailA,
                         NoneVal, NoneVal, <<CanonKrakow>>,
                         <<CanonCorrespondence>>)
WarszawaTrader ==
    NormalizedCEIDGProfile(NoneVal, V2, NoneVal, Jan, Bea, NoneVal, MailB,
                           NoneVal, NoneVal, <<CanonMain>>, <<>>,
                           <<CanonBusiness>>)

\* a run at the call _apply_enrichment_selections(entity_id, proposal,
\* selections)
ApplyCall(store, src, prof, prop, selections) ==
    NextWrite([Run(E1, src, NoneVal, NoneVal, FALSE) EXCEPT
                  !.pc = "core",
                  !.entity = get_entity(store, E1).value,
                  !.profile = prof, !.proposal = prop,
                  !.selections = selections])

\* one call of the Apply Engine, for a proposal the generator made of the
\* entity in the store and for any selection among its items
InitApply ==
    /\ stage = "apply"
    /\ source = "KRS"
    /\ entity = EmptyEntity(LEGAL_PERSON)
    /\ profile = EmptyKRSProfile
    /\ all_identifiers = << >>
    /\ proposal = NoProposal
    /\ payload = NoPayload
    /\ norm_result = NoResult
    /\ \/ \E all_ids \in {IndexChoices[1], IndexChoices[2]},
             addresses \in {<<>>, <<StoredAddress(AddrMainFull, E1)>>} :
            LET store == LegalStore(<<>>, addresses)
                prop == generate_krs_proposal(get_entity(store, E1).value,
                                              KrakowCompany, all_ids)
            IN  /\ db = store
                /\ \E selections \in AnySelections(prop) :
                     runs = <<ApplyCall(store, T("krs"),
                                        krs_profile_after(KrakowCompany),
                                        prop, selections)>>
       \/ LET store == PhysicalStore
              prop == generate_ceidg_proposal(get_entity(store, E1).value,
                                              WarszawaTrader, <<>>)
          IN  /\ db = store
              /\ \E selections \in AnySelections(prop) :
                   runs = <<ApplyCall(store, T("ceidg"),
                                      ceidg_profile_after(WarszawaTrader),
                                      prop, selections)>>

NextApply ==
    \/ \E r \in DOMAIN runs : ApplyCore(r)
    \/ \E r \in DOMAIN runs : ApplyTypeSpecific(r)
    \/ \E r \in DOMAIN runs : ApplyIdentifier(r)
    \/ \E r \in DOMAIN runs : ApplyContact(r)
    \/ \E r \in DOMAIN runs : ApplyAddress(r)

SpecApply == InitApply /\ [][NextApply]_vars

---------------------------------------------------------------------------
(* Properties of the store and of the enrichment run                       *)

\* the snapshot a run inserted is in the snapshot table as it was inserted
SnapshotStored(run) ==
    \E i \in 1..Len(db.registry_snapshots) :
        /\ db.registry_snapshots[i].id = run.snapshot_id
        /\ db.registry_snapshots[i].payload_raw = run.snapshot.payload_raw
        /\ db.registry_snapshots[i].payload_hash = run.snapshot.payload_hash

\* C13: after any sequence of snapshot inserts, enrichment runs, cache
\* upserts, entity updates and entity deletions, every snapshot a run
\* persisted is still stored, with the payload_raw and the payload_hash it
\* was inserted with.
C13_SnapshotsAreNeverDeleted ==
    \A r \in DOMAIN runs :
        runs[r].snapshot_id # NoneVal => SnapshotStored(runs[r])

\* the run is inside the Apply Engine or has returned from it
InApply(run) == run.pc \in ApplyPhases \cup {"returned"}
Returned(run) == run.pc = "returned"

\* the writes a selection names, in the order the engine reaches them
SelectedWrites(run) ==
    (IF run.selections.apply_core /\ DOMAIN run.proposal.core_updates # {}
     THEN <<[category |-> "core", item |-> run.proposal.core_updates]>>
     ELSE <<>>)
    \o (IF run.selections.apply_type_specific
           /\ DOMAIN run.proposal.type_specific_updates # {}
        THEN <<[category |-> "type_specific",
                item |-> run.proposal.type_specific_updates]>>
        ELSE <<>>)
    \o [k \in 1..Len(SelectSeq(run.selections.identifiers,
                               LAMBDA p : p.action # SKIP)) |->
           [category |-> "identifiers",
            item |-> SelectSeq(run.selections.identifiers,
                               LAMBDA p : p.action # SKIP)[k]]]
    \o [k \in 1..Len(run.selections.contacts) |->
           [category |-> "contacts", item |-> run.selections.contacts[k]]]
    \o [k \in 1..Len(run.selections.addresses) |->
           [category |-> "addresses", item |-> run.selections.addresses[k]]]

\* the writes a run attempted, in order
AttemptedWrites(run) ==
    [k \in 1..Len(run.calls) |->
        [category |-> run.calls[k].category, item |-> run.calls[k].item]]

Succeeded(call) == call.exc = NoneVal

\* what a successful write stored is in the tables
InStore(run, call) ==
    CASE call.category \in {"core", "type_specific"} ->
             \A k \in DOMAIN call.item :
                 db.entities[run.entity_id][k] = call.item[k]
      [] call.category = "identifiers" ->
             \E i \in 1..Len(db.identifiers) :
                 /\ db.identifiers[i].entity_id = run.entity_id
                 /\ db.identifiers[i].identifier_type = call.item.identifier_type
                 /\ db.identifiers[i].identifier_value = call.item.identifier_value
      [] call.category = "contacts" ->
             \E i \in 1..Len(db.contacts) :
                 /\ db.contacts[i].entity_id = run.entity_id
                 /\ db.contacts[i].contact_type = call.item.contact_type
                 /\ db.contacts[i].contact_value = call.item.contact_value
      [] call.category = "addresses" ->
             \E i \in 1..Len(db.addresses) :
                 /\ db.addresses[i].entity_id = run.entity_id
                 /\ \A k \in AddressColumns :
                        Truthy(call.item.address[k]) =>
                            db.addresses[i][k] = call.item.address[k]
      [] OTHER -> TRUE

\* C14: in the Apply Engine the failure of one item's write neither keeps a
\* remaining selected item, of the same or of a later category, from being
\* attempted nor undoes a write already applied: when the call returns,
\* every write the selection names was attempted in order, every write that
\* succeeded is in the store, and every failure is one recorded error.
C14_FailureNeitherAbortsNorUndoes ==
    \A r \in DOMAIN runs :
        /\ InApply(runs[r]) =>
              \A k \in 1..Len(runs[r].calls) :
                  Succeeded(runs[r].calls[k]) => InStore(runs[r], runs[r].calls[k])
        /\ Returned(runs[r]) =>
              /\ AttemptedWrites(runs[r]) = SelectedWrites(runs[r])
              /\ Len(runs[r].errors)
                 = Len(SelectSeq(runs[r].calls, LAMBDA c : ~Succeeded(c)))

\* a call returned in which a write succeeded, a later identifier write
\* failed and writes after the failed one succeeded
C14_Witness ==
    \E r \in DOMAIN runs :
        /\ Returned(runs[r])
        /\ \E a, b, c \in 1..Len(runs[r].calls) :
               /\ a < b /\ b < c
               /\ Succeeded(runs[r].calls[a])
               /\ ~Succeeded(runs[r].calls[b])
               /\ runs[r].calls[b].category = "identifiers"
               /\ runs[r].calls[c].category = "identifiers"
               /\ Succeeded(runs[r].calls[c])
        /\ \E c \in 1..Len(runs[r].calls) :
               /\ runs[r].calls[c].category = "addresses"
               /\ Succeeded(runs[r].calls[c])
        /\ runs[r].errors # <<>>

\* the successful calls of a category
SucceededIn(run, category) ==
    SelectSeq(run.calls, LAMBDA c : c.category = category /\ Succeeded(c))

\* the number of entity columns the successful calls of a category set
RECURSIVE ColumnsSet(_, _)
ColumnsSet(calls, k) ==
    IF k > Len(calls) THEN 0
    ELSE Cardinality(calls[k].columns) + ColumnsSet(calls, k + 1)

\* the columns of the entity that differ from what the run started from
ChangedColumns(run) ==
    {k \in DOMAIN db.entities[run.entity_id] :
        db.entities[run.entity_id][k] # run.entity[k]}

\* the rows the entity has more than the run started from
NewRows(run, table) ==
    Len(RowsOf(db[table], run.entity_id)) - Len(run.entity[table])

\* C15: for every proposal, selection and pattern of storage failures, each
\* per-category count of the Apply Engine equals the number of writes of
\* that category that succeeded (columns set for core and type-specific,
\* records written for identifiers, contacts and addresses), and every
\* failed write contributes exactly one error string.
C15_CountsAreSuccessfulWrites ==
    \A r \in DOMAIN runs :
        InApply(runs[r]) =>
            LET run == runs[r]
            IN  /\ run.applied.core = ColumnsSet(SucceededIn(run, "core"), 1)
                /\ run.applied.type_specific
                   = ColumnsSet(SucceededIn(run, "type_specific"), 1)
                /\ run.applied.core + run.applied.type_specific
                   = Cardinality(ChangedColumns(run))
                /\ run.applied.identifiers
                   = Len(SucceededIn(run, "identifiers"))
                /\ run.applied.identifiers = NewRows(run, "identifiers")
                /\ run.applied.contacts = Len(SucceededIn(run, "contacts"))
                /\ run.applied.contacts = NewRows(run, "contacts")
                /\ run.applied.addresses = Len(SucceededIn(run, "addresses"))
                /\ Len(run.errors)
                   = Len(SelectSeq(run.calls, LAMBDA c : ~Succeeded(c)))

\* a call returned with columns, identifiers and addresses counted and with
\* two errors, one of them a duplicate
C15_Witness ==
    \E r \in DOMAIN runs :
        /\ Returned(runs[r])
        /\ runs[r].applied.core = 1
        /\ runs[r].applied.type_specific > 0
        /\ runs[r].applied.identifiers = 1
        /\ runs[r].applied.addresses = 2
        /\ Len(runs[r].errors) = 2
        /\ \E k \in 1..Len(runs[r].errors) : runs[r].errors[k].text = "Duplicate"

\* the Registry Profile Cache rows of a run's entity and source
CacheRows(store, run) ==
    IF run.source = T("krs")
    THEN RowsOf(store.registry_profiles_krs, run.entity_id)
    ELSE RowsOf(store.registry_profiles_ceidg, run.entity_id)

\* the cache row holds the values of the run's profile
HoldsProfile(row, run) ==
    /\ row.nip = run.profile.nip
    /\ row.regon = run.profile.regon
    /\ IF run.source = T("krs")
       THEN /\ row.krs = run.profile.krs
            /\ row.official_name = run.profile.official_name
            /\ row.short_name = run.profile.short_name
            /\ row.legal_form = run.profile.legal_form
       ELSE /\ row.ceidg_id = run.profile.ceidg_id
            /\ row.first_name = run.profile.first_name
            /\ row.last_name = run.profile.last_name
            /\ row.business_name = run.profile.business_name

\* the run ends, in this step, after a call of the Apply Engine in which a
\* write succeeded
EndsAfterWrite(r) ==
    /\ runs[r].pc = "returned"
    /\ runs'[r].pc = "done"
    /\ SumApplied(runs[r].applied) > 0

\* C16: when an enrichment run in which at least one write succeeded ends,
\* exactly one Registry Profile Cache row exists for (entity id, source),
\* it holds the values of the profile of that run and its last_snapshot_id
\* is the id of the snapshot that run inserted; an upsert for an entity
\* that has a row replaces the row and adds none.
C16_OneCacheRowOfTheRun ==
    [][\A r \in DOMAIN runs :
          EndsAfterWrite(r) =>
              /\ Len(CacheRows(db', runs[r])) = 1
              /\ HoldsProfile(CacheRows(db', runs[r])[1], runs[r])
              /\ CacheRows(db', runs[r])[1].last_snapshot_id
                 = runs[r].snapshot_id
              /\ Len(db'.registry_profiles_krs) + Len(db'.registry_profiles_ceidg)
                 = 1]_vars

\* both runs ended after a write, the row is the one of the second run and
\* no longer the one of the first
C16_Witness ==
    /\ Len(runs) = 2
    /\ \A r \in DOMAIN runs :
           runs[r].pc = "done" /\ SumApplied(runs[r].applied) > 0
    /\ runs[1].snapshot_id # runs[2].snapshot_id
    /\ runs[1].profile # runs[2].profile
    /\ Len(CacheRows(db, runs[2])) = 1
    /\ CacheRows(db, runs[2])[1].last_snapshot_id = runs[2].snapshot_id
    /\ HoldsProfile(CacheRows(db, runs[2])[1], runs[2])

\* the calls of a run that tried to add the identifier (type, value)
AddsOf(run, identifier_type, identifier_value) ==
    SelectSeq(run.calls,
              LAMBDA c : /\ c.category = "identifiers"
                         /\ c.item.identifier_type = identifier_type
                         /\ c.item.identifier_value = identifier_value)

\* the rows of the identifier table that hold (type, value)
Holders(identifier_type, identifier_value) ==
    SelectSeq(db.identifiers,
              LAMBDA row : /\ row.identifier_type = identifier_type
                           /\ row.identifier_value = identifier_value)

\* the 'Duplicate <type>: <value>' error strings of a run
DuplicateErrors(run, identifier_type, identifier_value) ==
    SelectSeq(run.errors,
              LAMBDA e : /\ e.text = "Duplicate"
                         /\ e.subject = identifier_type
                         /\ e.value = identifier_value)

\* the run is past the Apply Engine
PastApply(run) == run.pc \in {"returned", "done"}

IdentifierKeys ==
    {<<t, v>> : t \in {KRS, NIP, REGON}, v \in {V12, V2}}

\* C17: when two enrichment runs concurrently apply an ADD of the same
\* identifier (type, value), the identifier is stored exactly once: at most
\* one add succeeds, a run whose add the unique constraint refuses records
\* exactly one 'Duplicate <type>: <value>' error string for it, does not
\* crash, and still attempts its remaining selected items.
C17_ConcurrentAddStoredOnce ==
    \A key \in IdentifierKeys :
        /\ Len(Holders(key[1], key[2])) <= 1
        /\ Len(SelectSeq(runs, LAMBDA run :
                   \E k \in 1..Len(AddsOf(run, key[1], key[2])) :
                       Succeeded(AddsOf(run, key[1], key[2])[k]))) <= 1
        /\ \A r \in DOMAIN runs :
             LET adds == AddsOf(runs[r], key[1], key[2])
                 refused == SelectSeq(adds, LAMBDA c :
                                c.exc = DuplicateIdentifierError)
             IN  /\ Len(DuplicateErrors(runs[r], key[1], key[2]))
                    = Len(refused)
                 /\ Len(refused) <= 1
                 /\ (refused # <<>> /\ runs[r].entity_id \in DOMAIN db.entities)
                        => Len(Holders(key[1], key[2])) = 1
                 /\ (refused # <<>> /\ runs[r].pc = "crashed")
                        => runs[r].calls[Len(runs[r].calls)].category = "profile"
                 /\ (refused # <<>> /\ PastApply(runs[r]))
                        => AttemptedWrites(runs[r])
                           = <<[category |-> "snapshot", item |-> runs[r].snapshot]>>
                             \o SelectedWrites(runs[r])
                             \o (IF runs[r].pc = "done"
                                    /\ SumApplied(runs[r].applied) > 0
                                 THEN <<[category |-> "profile",
                                         item |-> runs[r].profile]>>
                                 ELSE <<>>)

\* both runs added the NIP V2 to the entity: the first run's add succeeded,
\* the second run's was refused and is one Duplicate error, and the second
\* run went on to add a contact and ended
C17_Witness ==
    /\ Len(runs) = 2
    /\ E1 \in DOMAIN db.entities
    /\ Len(AddsOf(runs[1], NIP, V2)) = 1
    /\ Succeeded(AddsOf(runs[1], NIP, V2)[1])
    /\ Len(AddsOf(runs[2], NIP, V2)) = 1
    /\ AddsOf(runs[2], NIP, V2)[1].exc = DuplicateIdentifierError
    /\ Len(DuplicateErrors(runs[2], NIP, V2)) = 1
    /\ Len(Holders(NIP, V2)) = 1
    /\ runs[2].pc = "done"
    /\ runs[2].applied.contacts = 1
    /\ runs[1].pc \in ApplyPhases

\* the run has rendered the summary of its proposal
Rendered(run) == run.snapshot_id # NoneVal

\* the messages of a kind that the summary shows
ShownMessages(run, kind) ==
    {run.shown[k].item : k \in {j \in 1..Len(run.shown) : run.shown[j].kind = kind}}

Elements(seq) == {seq[k] : k \in 1..Len(seq)}

\* C18: render_proposal_summary shows every warning and every info message
\* of the proposal, also when the proposal holds no proposals.
C18_MessagesAlwaysShown ==
    \A r \in DOMAIN runs :
        Rendered(runs[r]) =>
            /\ Elements(runs[r].proposal.warnings)
               \subseteq ShownMessages(runs[r], "warning")
            /\ Elements(runs[r].proposal.info_messages)
               \subseteq ShownMessages(runs[r], "info")

\* the selection names the write of a call
Named(run, call) ==
    CASE call.category = "core" ->
             /\ run.selections.apply_core
             /\ call.item = run.proposal.core_updates
      [] call.category = "type_specific" ->
             /\ run.selections.apply_type_specific
             /\ call.item = run.proposal.type_specific_updates
      [] call.category = "identifiers" ->
             /\ call.item \in Elements(run.selections.identifiers)
             /\ call.item.action # SKIP
      [] call.category = "contacts" ->
             call.item \in Elements(run.selections.contacts)
      [] call.category = "addresses" ->
             call.item \in Elements(run.selections.addresses)
      [] OTHER -> FALSE

\* the rows of the entity in a table, and those among them that the run did
\* not start from
StoredRows(run, table) == Elements(RowsOf(db[table], run.entity_id))
AddedRows(run, table) == StoredRows(run, table) \ Elements(run.entity[table])

\* what the tables hold more than the run started from is named by the
\* selection
StoreChangesNamed(run) ==
    /\ \A k \in ChangedColumns(run) :
           \/ run.selections.apply_core
              /\ k \in DOMAIN run.proposal.core_updates
           \/ run.selections.apply_type_specific
              /\ k \in DOMAIN run.proposal.type_specific_updates
    /\ \A row \in AddedRows(run, "identifiers") :
           \E p \in Elements(run.selections.identifiers) :
               /\ p.action # SKIP
               /\ p.identifier_type = row.identifier_type
               /\ p.identifier_value = row.identifier_value
    /\ \A row \in AddedRows(run, "contacts") :
           \E p \in Elements(run.selections.contacts) :
               /\ p.contact_type = row.contact_type
               /\ p.contact_value = row.contact_value
    /\ \A row \in AddedRows(run, "addresses") :
           \E p \in Elements(run.selections.addresses) :
               /\ p.address.address_type = row.address_type
               /\ \/ p.action = ADD
                     /\ row.id \notin {old.id : old \in Elements(run.entity.addresses)}
                  \/ p.action = UPDATE /\ p.existing_address_id = row.id

\* C19: the writes of the Apply Engine are a subset of what the selection
\* names: core and type-specific fields are written only when their flag is
\* set, only the identifier, contact and address proposals listed in the
\* selection are written, an identifier proposal tagged SKIP is never
\* written even when it is listed, and with an empty selection no write is
\* performed.
C19_WritesAreNamedBySelection ==
    \A r \in DOMAIN runs :
        InApply(runs[r]) =>
            LET run == runs[r]
            IN  /\ \A k \in 1..Len(run.calls) : Named(run, run.calls[k])
                /\ Len(run.calls) <= Len(SelectedWrites(run))
                /\ StoreChangesNamed(run)
                /\ run.selections = NoSelections =>
                       /\ run.calls = <<>>
                       /\ ChangedColumns(run) = {}
                       /\ \A table \in {"identifiers", "contacts", "addresses"} :
                              StoredRows(run, table) = Elements(run.entity[table])

\* a call returned whose selection listed an identifier tagged SKIP and left
\* the proposed core update out, after it wrote other items
C19_Witness ==
    \E r \in DOMAIN runs :
        /\ Returned(runs[r])
        /\ \E p \in Elements(runs[r].selections.identifiers) : p.action = SKIP
        /\ ~runs[r].selections.apply_core
        /\ DOMAIN runs[r].proposal.core_updates # {}
        /\ \E k \in 1..Len(runs[r].calls) :
               /\ runs[r].calls[k].category = "identifiers"
               /\ Succeeded(runs[r].calls[k])
        /\ AddedRows(runs[r], "addresses") # {}

\* an empty selection on a proposal that holds proposals
C19_WitnessEmpty ==
    \E r \in DOMAIN runs :
        /\ Returned(runs[r])
        /\ runs[r].selections = NoSelections
        /\ has_any_proposals(runs[r].proposal)

\* the address row with an id, among rows
AddressWithId(rows, address_id) ==
    CHOOSE row \in Elements(rows) : row.id = address_id

\* the successful address updates of a run
AppliedUpdates(run) ==
    {call \in Elements(run.calls) :
        /\ call.category = "addresses"
        /\ call.item.action = UPDATE
        /\ Succeeded(call)}

\* the fields the change summary of an update lists
ListedFields(addr_proposal, existing) ==
    {change.key : change \in Elements(get_changes_summary(addr_proposal, existing))}

\* C20: applying an address UPDATE proposal is non-destructive: it changes
\* only the fields listed in the proposal's change summary, and every field
\* of the existing address for which the canonical address has no value
\* keeps its stored value.
C20_AddressUpdateKeepsOtherFields ==
    \A r \in DOMAIN runs :
        \A call \in AppliedUpdates(runs[r]) :
            LET existing == AddressWithId(runs[r].entity.addresses,
                                          call.item.existing_address_id)
                stored == AddressWithId(db.addresses,
                                        call.item.existing_address_id)
            IN  \A k \in AddressColumns :
                    /\ stored[k] # existing[k] =>
                           k \in ListedFields(call.item, existing)
                    /\ ~Truthy(call.item.address[k]) =>
                           stored[k] = existing[k]

---------------------------------------------------------------------------
(* Properties of the returned profile's fields                             *)

\* the string fields of a profile
StringFields ==
    IF source = "KRS"
    THEN {"krs", "nip", "regon", "official_name", "short_name", "legal_form",
          "legal_form_code", "registry_status", "email", "website", "phone",
          "share_capital", "pkd_main"}
    ELSE {"ceidg_id", "nip", "regon", "first_name", "last_name",
          "business_name", "status", "email", "website", "phone", "pkd_main"}

\* the addresses a profile holds
AddressesHeld ==
    IF source = "KRS"
    THEN {norm_result.seat_address, norm_result.correspondence_address}
    ELSE {norm_result.main_address, norm_result.correspondence_address}
         \cup Elements(norm_result.business_addresses)

IsEmptyString(v) == v = JStr(EmptyStr)

\* the normalizer returned a profile
Returned_profile == Normalized /\ ~IsRaise(norm_result)

\* C21: no string field of a profile returned by normalize_krs_response or
\* normalize_ceidg_response is the empty string: a field the payload does
\* not supply is absent (None).
C21_NoEmptyStringField ==
    Returned_profile =>
        /\ \A f \in StringFields : ~IsEmptyString(norm_result[f])
        /\ \A a \in AddressesHeld :
               a.t = "address" =>
                   \A f \in {"country", "city", "street", "building_no"} :
                       ~IsEmptyString(a[f])
        /\ \A k \in 1..Len(norm_result.pkd_codes) :
               ~IsEmptyString(norm_result.pkd_codes[k])

\* _ensure_str was applied to a scalar string
CoercedString == Coerced /\ payload.t = "str"

\* C22: _ensure_str applied to a scalar string returns the string with
\* leading and trailing whitespace removed, and absent when it is empty
\* after trimming.
C22_StringReturnedTrimmed ==
    CoercedString =>
        norm_result = IF Strip(payload.s) = EmptyStr THEN JNull
                      ELSE JStr(Strip(payload.s))

\* what _ensure_str does with a scalar string: absent when the string is
\* empty after trimming, and otherwise the string itself, its leading and
\* trailing whitespace kept
C22_StringReturnedUntrimmed ==
    CoercedString =>
        norm_result = IF Strip(payload.s) = EmptyStr THEN JNull ELSE payload

\* a string with text and surrounding whitespace was coerced
C22_Witness ==
    /\ CoercedString
    /\ Strip(payload.s) # EmptyStr
    /\ Strip(payload.s) # payload.s

\* what the payload holds as its list of activity codes
PkdSupplied ==
    IF source = "CEIDG" THEN Supplied("pkd")
    ELSE LET dzial3 == JGet(JGet(JGet(payload, "odpis", EmptyDict),
                                 "dane", EmptyDict), "dzial3", EmptyDict)
         IN  JGet(JGet(dzial3, "przedmiotDzialalnosci", EmptyDict),
                  "przedmiotPrzewazajacejDzialalnosci", Absent)

\* the activity-code entries of the payload, in order
PkdItems ==
    IF PkdSupplied.t = "list" THEN PkdSupplied.l
    ELSE IF PkdSupplied.t = "dict" THEN <<PkdSupplied>>
    ELSE << >>

\* the payload is a plain one: every entry is a dict with a text code or
\* (CEIDG) a bare text code
CodeOf(item) ==
    IF item.t = "str" THEN item
    ELSE IF source = "CEIDG" THEN JGet(item, "kod", JNull)
    ELSE JOr(JGet(item, "kodDzial", JNull), JGet(item, "kod", JNull))

PlainPkd ==
    /\ PkdSupplied.t \in {"absent", "list", "dict"}
    /\ \A k \in 1..Len(PkdItems) :
           /\ PkdItems[k].t
              \in {"dict"} \cup (IF source = "CEIDG" THEN {"str"} ELSE {})
           /\ CodeOf(PkdItems[k]).t = "str"
           /\ Len(CodeOf(PkdItems[k]).s) > 0

Principal(item) ==
    item.t = "dict" /\ JTruthy(JGet(item, "przewazajace", JNull))

FlaggedPositions == {k \in 1..Len(PkdItems) : Principal(PkdItems[k])}
Least(S) == CHOOSE k \in S : \A j \in S : k <= j

\* the code of the first flagged entry, else of the first entry
ExpectedMain ==
    IF FlaggedPositions # {} THEN CodeOf(PkdItems[Least(FlaggedPositions)])
    ELSE IF Len(PkdItems) > 0 THEN CodeOf(PkdItems[1])
    ELSE JNull

\* C23: pkd_main of a normalized profile is the code of the first payload
\* entry flagged as principal, or, when no entry is flagged, the code of
\* the first entry; a later flagged entry never displaces an earlier
\* flagged one.
C23_MainIsFirstFlaggedElseFirst ==
    (Returned_profile /\ PlainPkd) => norm_result.pkd_main = ExpectedMain

\* what the normalizers do: the KRS normalizer takes the first code, the
\* CEIDG normalizer the code of the last flagged entry, else the first code
Greatest(S) == CHOOSE k \in S : \A j \in S : k >= j
C23_MainIsLastFlaggedElseFirst ==
    (Returned_profile /\ PlainPkd) =>
        norm_result.pkd_main =
            IF source = "CEIDG" /\ FlaggedPositions # {}
            THEN CodeOf(PkdItems[Greatest(FlaggedPositions)])
            ELSE IF Len(PkdItems) > 0 THEN CodeOf(PkdItems[1])
            ELSE JNull

\* the codes of the payload, each once, in the order of first occurrence
RECURSIVE FirstOccurrences(_, _)
FirstOccurrences(items, k) ==
    IF k > Len(items) THEN << >>
    ELSE IF \E j \in 1..(k - 1) : CodeOf(items[j]) = CodeOf(items[k])
    THEN FirstOccurrences(items, k + 1)
    ELSE <<CodeOf(items[k])>> \o FirstOccurrences(items, k + 1)

\* C24: pkd_codes of a normalized profile contains each code at most once,
\* in the order of its first occurrence in the payload, whatever duplicates
\* the payload contains.
C24_CodesOncePerCode ==
    (Returned_profile /\ PlainPkd) =>
        norm_result.pkd_codes = FirstOccurrences(PkdItems, 1)

\* what the normalizers do: every code of the payload, in payload order,
\* duplicates included
C24_CodesAsSupplied ==
    (Returned_profile /\ PlainPkd) =>
        norm_result.pkd_codes = [k \in 1..Len(PkdItems) |-> CodeOf(PkdItems[k])]

---------------------------------------------------------------------------
(* Further properties of the generated proposal                            *)

\* the kinds of identifier the generators know
KnownKinds == {KRS, NIP, REGON}

\* the profile's identifiers: the tax id, the statistical id and the id
\* that the source itself assigns
SourceSpecificIdentifier ==
    IF source = "KRS" THEN profile.krs ELSE profile.ceidg_id

\* an identifier is reported by an "already exists on entity" message for
\* one of the kinds, or is in identifiers_to_add under one of the kinds
AccountedFor(kinds) ==
    \/ \E k \in 1..Len(proposal.info_messages) :
           /\ proposal.info_messages[k].text = "already exists on entity"
           /\ proposal.info_messages[k].subject \in kinds
    \/ \E k \in 1..Len(proposal.identifiers_to_add) :
           proposal.identifiers_to_add[k].identifier_type \in kinds

\* the kinds under which the source-specific id can be proposed: KRS for a
\* KRS profile, a kind of its own for a CEIDG profile (any subject that is
\* neither one of the known kinds nor a contact channel)
SourceSpecificKinds ==
    IF source = "KRS" THEN {KRS}
    ELSE ({ proposal.identifiers_to_add[k].identifier_type :
                k \in 1..Len(proposal.identifiers_to_add) }
          \cup { proposal.info_messages[k].subject :
                     k \in { j \in 1..Len(proposal.info_messages) :
                                proposal.info_messages[j].text
                                = "already exists on entity" } })
         \ (KnownKinds \cup ContactChannels)

\* C25: each non-absent identifier of the profile among the tax id (NIP),
\* the statistical id (REGON) and the source-specific id (the KRS number of
\* a KRS profile, the CEIDG id of a CEIDG profile) is either reported by an
\* "already exists on entity" info message or appears in
\* identifiers_to_add; none is silently dropped.
C25_NoIdentifierDropped ==
    Proposed =>
        /\ Truthy(profile.nip) => AccountedFor({NIP})
        /\ Truthy(profile.regon) => AccountedFor({REGON})
        /\ Truthy(SourceSpecificIdentifier) => AccountedFor(SourceSpecificKinds)

\* what the generators do: the tax id, the statistical id and the KRS
\* number are accounted for, the CEIDG id is in no proposal and no message
C25_CeidgIdDropped ==
    Proposed =>
        /\ Truthy(profile.nip) => AccountedFor({NIP})
        /\ Truthy(profile.regon) => AccountedFor({REGON})
        /\ IF source = "KRS"
           THEN Truthy(profile.krs) => AccountedFor({KRS})
           ELSE SourceSpecificKinds = {}

\* a generator was called in this step
Generated == stage = "input" /\ stage' = "proposed"

\* C26: generate_krs_proposal and generate_ceidg_proposal leave their
\* inputs unchanged: after the call the entity state and every field of the
\* canonical profile, the address_type of each NormalizedAddress it holds
\* included, equal their values before the call.
C26_InputsUnchanged ==
    [][Generated => (entity' = entity /\ profile' = profile)]_vars

\* a profile without the address_type of its addresses
Untyped(address) ==
    [k \in 1..Len(address) |->
        [f \in DOMAIN address[k] \ {"address_type"} |-> address[k][f]]]
WithoutAddressTypes(prof) ==
    [f \in DOMAIN prof |->
        IF f \in {"seat_address", "main_address", "correspondence_address",
                  "business_addresses"}
        THEN Untyped(prof[f]) ELSE prof[f]]

\* what the generators do: the entity and every field of the profile but
\* the address_type of its addresses are left as they were; the seat (or
\* main) address is tagged MAIN and, by the KRS generator, the
\* correspondence address CORRESPONDENCE
C26_OnlyAddressTypeAssigned ==
    [][Generated =>
        /\ entity' = entity
        /\ WithoutAddressTypes(profile') = WithoutAddressTypes(profile)
        /\ \A k \in 1..Len(profile'.correspondence_address) :
               profile'.correspondence_address[k].address_type
               = IF source = "KRS" THEN CORRESPONDENCE
                 ELSE profile.correspondence_address[k].address_type
        /\ source = "KRS" =>
               \A k \in 1..Len(profile'.seat_address) :
                   profile'.seat_address[k].address_type = MAIN
        /\ source = "CEIDG" =>
               /\ \A k \in 1..Len(profile'.main_address) :
                      profile'.main_address[k].address_type = MAIN
               /\ profile'.business_addresses = profile.business_addresses]_vars

---------------------------------------------------------------------------
(* An operator who edits the entity while enrichment runs are under way:   *)
(* entity update, options "Update core fields" and "Update details"        *)

\* commands._update_core_fields: the operator enters a new label
UpdateCoreFields ==
    /\ \E entity_id \in DOMAIN db.entities \cap {runs[r].entity_id : r \in DOMAIN runs} :
         /\ db.entities[entity_id].canonical_label # Bea
         /\ db' = update_entity(db, entity_id, [canonical_label |-> Bea],
                                FALSE).db
    /\ UNCHANGED runs
    /\ Unused

\* commands._update_type_specific_fields: the operator enters a first name
\* for a natural person, a registered name for a legal person
UpdateTypeSpecificFields ==
    /\ \E entity_id \in DOMAIN db.entities \cap {runs[r].entity_id : r \in DOMAIN runs} :
         LET data == IF db.entities[entity_id].entity_type = PHYSICAL_PERSON
                     THEN [first_name |-> Bea]
                     ELSE [registered_name |-> Bea]
         IN  /\ \E k \in DOMAIN data : db.entities[entity_id][k] # Bea
             /\ db' = update_entity(db, entity_id, data, FALSE).db
    /\ UNCHANGED runs
    /\ Unused

NextEdit ==
    \/ NextEnrich
    \/ UpdateCoreFields
    \/ UpdateTypeSpecificFields

\* one run of entity enrich on E1, with the operator at the entity's menu
InitEdit ==
    /\ stage = "edit"
    /\ source = "KRS"
    /\ entity = EmptyEntity(LEGAL_PERSON)
    /\ profile = EmptyKRSProfile
    /\ all_identifiers = << >>
    /\ proposal = NoProposal
    /\ payload = NoPayload
    /\ norm_result = NoResult
    /\ \E apply_all \in BOOLEAN :
         \/ /\ db = LegalStore(<<StoredIdentifier(T("I1"), E1, KRS, V12)>>, <<>>)
            /\ runs = <<Run(E1, NoneVal, NoneVal, NoneVal, apply_all)>>
         \/ /\ db = PhysicalStore
            /\ runs = <<Run(E1, NoneVal, NoneVal, V2, apply_all)>>

SpecEdit == InitEdit /\ [][NextEdit]_vars

\* run r wrote core or type-specific fields in this step
WroteFields(r) ==
    /\ Len(runs'[r].calls) = Len(runs[r].calls) + 1
    /\ runs'[r].calls[Len(runs'[r].calls)].category \in {"core", "type_specific"}
    /\ Succeeded(runs'[r].calls[Len(runs'[r].calls)])

\* C27: in every interleaving of an enrichment run with another writer to
\* the same entity (an operator edit or a second enrichment run) that acts
\* between proposal generation and apply, the apply step never replaces a
\* core or type-specific field value that is non-empty at the moment of the
\* write.
C27_ApplyNeverReplacesNonEmpty ==
    [][\A r \in DOMAIN runs :
          WroteFields(r) =>
              \A k \in runs'[r].calls[Len(runs'[r].calls)].columns :
                  \/ ~Truthy(db.entities[runs[r].entity_id][k])
                  \/ db'.entities[runs[r].entity_id][k]
                     = db.entities[runs[r].entity_id][k]]_vars

\* without another writer between generation and apply the field written
\* is empty: what a run writes was empty in the entity it read
C27_WritesWereEmptyWhenRead ==
    [][\A r \in DOMAIN runs :
          WroteFields(r) =>
              \A k \in runs'[r].calls[Len(runs'[r].calls)].columns :
                  ~Truthy(runs[r].entity[k])]_vars

---------------------------------------------------------------------------
(* The order of the snapshot insert, the entity writes and the cache       *)
(* upsert within a run                                                     *)

SnapshotInStore(store, snapshot_id) ==
    \E i \in 1..Len(store.registry_snapshots) :
        store.registry_snapshots[i].id = snapshot_id

CacheSnapshotIds(store) ==
    {store.registry_profiles_krs[i].last_snapshot_id :
         i \in 1..Len(store.registry_profiles_krs)}
    \cup {store.registry_profiles_ceidg[i].last_snapshot_id :
              i \in 1..Len(store.registry_profiles_ceidg)}

EntityWriteCategories ==
    {"core", "type_specific", "identifiers", "contacts", "addresses"}

\* C28: in every enrichment run the snapshot insert is the first storage
\* call, every entity write follows a successful snapshot insert and the
\* cache upsert is the last call; in every state a run can be stopped in,
\* every Registry Profile Cache row references a snapshot that is in the
\* snapshot store.
C28_SnapshotFirstCacheLast ==
    /\ \A r \in DOMAIN runs :
           LET calls == runs[r].calls
           IN  \A i \in 1..Len(calls) :
                   /\ (i = 1) = (calls[i].category = "snapshot")
                   /\ i > 1 => calls[1].exc = NoneVal
                   /\ calls[i].category = "profile" => i = Len(calls)
                   /\ calls[i].category
                      \in EntityWriteCategories \cup {"snapshot", "profile"}
    /\ \A snapshot_id \in CacheSnapshotIds(db) :
           /\ snapshot_id # NoneVal
           /\ SnapshotInStore(db, snapshot_id)

\* one run was stopped by a failing cache upsert after its entity writes
\* and left a snapshot without a cache row, the other run wrote the entity
\* between its snapshot insert and its cache upsert
C28_Witness ==
    /\ Len(runs) = 2
    /\ \E r, q \in DOMAIN runs :
           /\ runs[r].pc = "crashed"
           /\ Len(runs[r].calls) > 2
           /\ runs[r].calls[Len(runs[r].calls)].category = "profile"
           /\ SnapshotInStore(db, runs[r].snapshot_id)
           /\ runs[r].snapshot_id \notin CacheSnapshotIds(db)
           /\ runs[q].pc = "done"
           /\ Len(runs[q].calls) > 2
           /\ runs[q].calls[Len(runs[q].calls)].category = "profile"
           /\ CacheSnapshotIds(db) = {runs[q].snapshot_id}

---------------------------------------------------------------------------
(* The addresses that the UPDATE proposals of one proposal name            *)

UpdatePositions ==
    {i \in 1..Len(proposal.address_proposals) :
         proposal.address_proposals[i].action = UPDATE}

\* C29: within one generated proposal no two AddressProposals tagged
\* UPDATE carry the same existing_address_id.
C29_UpdatesNameDistinctAddresses ==
    Proposed =>
        \A i, j \in UpdatePositions :
            i # j => proposal.address_proposals[i].existing_address_id
                     # proposal.address_proposals[j].existing_address_id

\* two UPDATE proposals of one proposal that carry the same
\* existing_address_id are proposals for two business addresses of a
\* CEIDG profile
C29_OnlyBusinessAddressesShare ==
    Proposed =>
        \A i, j \in UpdatePositions :
            (/\ i # j
             /\ proposal.address_proposals[i].existing_address_id
                = proposal.address_proposals[j].existing_address_id)
            => /\ source = "CEIDG"
               /\ proposal.address_proposals[i].address.address_type = BUSINESS
               /\ proposal.address_proposals[j].address.address_type = BUSINESS

---------------------------------------------------------------------------
(* What "apply all" selects, and what the prompt asks                      *)

\* the answers to "Apply all safe additions? (y/n/q)"
Responses == {"y", "yes", "a", "all", "n", "q"}
Affirmative == {"y", "yes", "a", "all"}

\* one console.input of prompt_apply_proposal after the first
Question(category, index) == [category |-> category, index |-> index]

\* ui.prompt_apply_proposal: the questions it asks after the first one
questions_asked(prop, response) ==
    IF ~has_any_proposals(prop) \/ response = "q" THEN {}
    ELSE
      LET apply_all == response \in Affirmative
      IN  (IF DOMAIN prop.core_updates # {} /\ ~apply_all
           THEN {Question("core", 1)} ELSE {})
          \cup (IF DOMAIN prop.type_specific_updates # {} /\ ~apply_all
                THEN {Question("type_specific", 1)} ELSE {})
          \cup {Question("identifiers", i) :
                   i \in {k \in 1..Len(prop.identifiers_to_add) :
                             /\ prop.identifiers_to_add[k].action # SKIP
                             /\ ~apply_all}}
          \cup {Question("contacts", i) :
                   i \in {k \in 1..Len(prop.contacts_to_add) : ~apply_all}}
          \cup {Question("addresses", i) :
                   i \in {k \in 1..Len(prop.address_proposals) :
                             prop.address_proposals[k].action = ADD
                                 => ~apply_all}}

\* a variant that takes every address under "all"
prompt_apply_proposal_all_addresses(prop, response, answers) ==
    IF ~has_any_proposals(prop) \/ response = "q" THEN NoSelections
    ELSE
      LET apply_all == response \in Affirmative
          yes(q) == q \in DOMAIN answers /\ answers[q]
      IN  [apply_core |->
               /\ DOMAIN prop.core_updates # {}
               /\ (apply_all \/ yes(Question("core", 1))),
           apply_type_specific |->
               /\ DOMAIN prop.type_specific_updates # {}
               /\ (apply_all \/ yes(Question("type_specific", 1))),
           identifiers |->
               Pick(prop.identifiers_to_add,
                    {i \in 1..Len(prop.identifiers_to_add) :
                        /\ prop.identifiers_to_add[i].action # SKIP
                        /\ (apply_all \/ yes(Question("identifiers", i)))},
                    1),
           contacts |->
               Pick(prop.contacts_to_add,
                    {i \in 1..Len(prop.contacts_to_add) :
                        apply_all \/ yes(Question("contacts", i))},
                    1),
           addresses |->
               Pick(prop.address_proposals,
                    {i \in 1..Len(prop.address_proposals) :
                        apply_all \/ yes(Question("addresses", i))},
                    1)]

\* ui.prompt_apply_proposal: the selections it returns for the first
\* response and the answers to the questions it asks
prompt_apply_proposal_answered(prop, response, answers) ==
    IF ~has_any_proposals(prop) \/ response = "q" THEN NoSelections
    ELSE
      LET apply_all == response \in Affirmative
          yes(q) == q \in DOMAIN answers /\ answers[q]
      IN  [apply_core |->
               /\ DOMAIN prop.core_updates # {}
               /\ (apply_all \/ yes(Question("core", 1))),
           apply_type_specific |->
               /\ DOMAIN prop.type_specific_updates # {}
               /\ (apply_all \/ yes(Question("type_specific", 1))),
           identifiers |->
               Pick(prop.identifiers_to_add,
                    {i \in 1..Len(prop.identifiers_to_add) :
                        /\ prop.identifiers_to_add[i].action # SKIP
                        /\ (apply_all \/ yes(Question("identifiers", i)))},
                    1),
           contacts |->
               Pick(prop.contacts_to_add,
                    {i \in 1..Len(prop.contacts_to_add) :
                        apply_all \/ yes(Question("contacts", i))},
                    1),
           addresses |->
               Pick(prop.address_proposals,
                    {i \in 1..Len(prop.address_proposals) :
                        IF prop.address_proposals[i].action = ADD
                        THEN apply_all \/ yes(Question("addresses", i))
                        ELSE yes(Question("addresses", i))},
                    1)]

\* "Get selections" from the operator, with the response, the questions
\* asked and the answers given kept in the run
SelectAnswered(r) ==
    /\ r \in DOMAIN runs
    /\ runs[r].pc = "select"
    /\ ~runs[r].apply_all
    /\ \E response \in Responses :
         LET asked == questions_asked(runs[r].proposal, response)
         IN  \E answers \in [asked -> BOOLEAN] :
               runs' = [runs EXCEPT ![r] =
                   [response |-> response, asked |-> asked,
                    answers |-> answers]
                   @@ NextWrite([runs[r] EXCEPT
                          !.pc = "core",
                          !.selections = prompt_apply_proposal_answered(
                                             runs[r].proposal, response,
                                             answers)])]
    /\ UNCHANGED db
    /\ Unused

\* a run at "Get selections"
SelectCall(store, src, prof, prop, apply_all) ==
    [Run(E1, src, NoneVal, NoneVal, apply_all) EXCEPT
        !.pc = "select",
        !.entity = get_entity(store, E1).value,
        !.profile = prof, !.proposal = prop]

\* one run at "Get selections", with and without --apply-all, for a
\* proposal the generator made of the entity in the store
InitSelect ==
    /\ stage = "select"
    /\ source = "KRS"
    /\ entity = EmptyEntity(LEGAL_PERSON)
    /\ profile = EmptyKRSProfile
    /\ all_identifiers = << >>
    /\ proposal = NoProposal
    /\ payload = NoPayload
    /\ norm_result = NoResult
    /\ \E apply_all \in BOOLEAN :
       \/ \E all_ids \in {IndexChoices[1], IndexChoices[2]},
             addresses \in {<<>>, <<StoredAddress(AddrMainFull, E1)>>} :
            LET store == LegalStore(<<>>, addresses)
                prop == generate_krs_proposal(get_entity(store, E1).value,
                                              KrakowCompany, all_ids)
            IN  /\ db = store
                /\ runs = <<SelectCall(store, T("krs"),
                                       krs_profile_after(KrakowCompany),
                                       prop, apply_all)>>
       \/ LET store == PhysicalStore
              prop == generate_ceidg_proposal(get_entity(store, E1).value,
                                              WarszawaTrader, <<>>)
          IN  /\ db = store
              /\ runs = <<SelectCall(store, T("ceidg"),
                                     ceidg_profile_after(WarszawaTrader),
                                     prop, apply_all)>>

NextSelect ==
    \/ \E r \in DOMAIN runs : SelectApplyAll(r)
    \/ \E r \in DOMAIN runs : SelectAnswered(r)
    \/ \E r \in DOMAIN runs : ApplyCore(r)
    \/ \E r \in DOMAIN runs : ApplyTypeSpecific(r)
    \/ \E r \in DOMAIN runs : ApplyIdentifier(r)
    \/ \E r \in DOMAIN runs : ApplyContact(r)
    \/ \E r \in DOMAIN runs : ApplyAddress(r)

SpecSelect == InitSelect /\ [][NextSelect]_vars

\* the address proposal was put to the operator and the answer was yes
Confirmed(run, item) ==
    \E i \in 1..Len(run.proposal.address_proposals) :
        /\ run.proposal.address_proposals[i] = item
        /\ Question("addresses", i) \in run.asked
        /\ run.answers[Question("addresses", i)]

\* C30: in "apply all" mode no identifier proposal tagged SKIP and no
\* address proposal tagged UPDATE is applied automatically: with
\* --apply-all the selections are the ADD identifiers, all contacts and
\* the ADD addresses, and no write is made for another item; after the
\* answer "all" the prompt asks about every address UPDATE, and an UPDATE
\* is written only when the answer to its question was yes.
C30_NothingUnsafeAppliedAutomatically ==
    \A r \in DOMAIN runs :
        LET run == runs[r]
            prop == run.proposal
        IN  run.pc # "select" =>
              /\ \A k \in 1..Len(run.calls) :
                     /\ run.calls[k].category = "identifiers"
                            => run.calls[k].item.action = ADD
                     /\ (/\ run.calls[k].category = "addresses"
                         /\ run.calls[k].item.action = UPDATE)
                            => ~run.apply_all /\ Confirmed(run, run.calls[k].item)
              /\ run.apply_all =>
                     /\ \A k \in 1..Len(run.selections.identifiers) :
                            run.selections.identifiers[k].action = ADD
                     /\ run.selections.contacts = prop.contacts_to_add
                     /\ \A k \in 1..Len(run.selections.addresses) :
                            run.selections.addresses[k].action = ADD
              /\ (~run.apply_all /\ run.response \in Affirmative) =>
                     /\ \A i \in 1..Len(prop.address_proposals) :
                            prop.address_proposals[i].action = UPDATE
                                => Question("addresses", i) \in run.asked
                     /\ \A k \in 1..Len(run.selections.identifiers) :
                            run.selections.identifiers[k].action = ADD

\* the operator answered "all"; the proposal holds an identifier tagged
\* SKIP, which was not written while another identifier was, and an
\* address UPDATE, which was asked about, confirmed and written
C30_Witness ==
    \E r \in DOMAIN runs :
        LET run == runs[r]
            prop == run.proposal
        IN  /\ run.pc = "returned"
            /\ ~run.apply_all
            /\ run.response = "all"
            /\ \E i \in 1..Len(prop.identifiers_to_add) :
                   prop.identifiers_to_add[i].action = SKIP
            /\ run.applied.identifiers > 0
            /\ \E i \in 1..Len(prop.address_proposals) :
                   /\ prop.address_proposals[i].action = UPDATE
                   /\ Question("addresses", i) \in run.asked
                   /\ run.answers[Question("addresses", i)]
            /\ \E k \in 1..Len(run.calls) :
                   /\ run.calls[k].category = "addresses"
                   /\ run.calls[k].item.action = UPDATE
                   /\ run.calls[k].exc = NoneVal

\* with --apply-all the proposal holds an identifier tagged SKIP and an
\* address UPDATE, the run has returned and neither was written
C30_WitnessFlag ==
    \E r \in DOMAIN runs :
        LET run == runs[r]
            prop == run.proposal
        IN  /\ run.pc = "returned"
            /\ run.apply_all
            /\ \E i \in 1..Len(prop.identifiers_to_add) :
                   prop.identifiers_to_add[i].action = SKIP
            /\ \E i \in 1..Len(prop.address_proposals) :
                   prop.address_proposals[i].action = UPDATE
            /\ run.applied.identifiers > 0
            /\ run.applied.addresses > 0

====
